---- MODULE Spec2Model ----
(***************************************************************************)
(* Streaming speech pipeline of zoom_rtms: HypothesisBuffer (LCP commit    *)
(* and n-gram dedup), the VAD packet framer of AudioBuffer, and the        *)
(* per-speaker SpeechProcessor driven by the orchestrator in main.py.      *)
(*                                                                         *)
(* Time is counted in sample periods of SpeechProcessor.SAMPLING_RATE      *)
(* (1/16000 s), so that seconds * SAMPLING_RATE is an integer: 0.1 s is    *)
(* 1600, 1 s is 16000, 30 s is 480000.  A word is the tuple                *)
(* <<start, end, text>> of the source; a text is a sequence of characters. *)
(***************************************************************************)
EXTENDS Integers, Sequences, FiniteSets, TLC

(***************************************************************************)
(* Program constants                                                       *)
(***************************************************************************)
SAMPLING_RATE == 16000

\* hypothesis_buffer.py:59  `a > self.last_commited_time - 0.1`
COMMIT_SLACK == 1600

\* hypothesis_buffer.py:63  `abs(a - self.last_commited_time) < 1`
DEDUP_WINDOW == 16000

\* hypothesis_buffer.py:67  `min(min(cn, nn), 5)`
MAX_NGRAM == 5

(***************************************************************************)
(* Generic helpers                                                         *)
(***************************************************************************)
Min(a, b) == IF a <= b THEN a ELSE b

Abs(x) == IF x < 0 THEN 0 - x ELSE x

Drop(s, n) == SubSeq(s, n + 1, Len(s))

Take(s, n) == SubSeq(s, 1, n)

IsPrefix(s, t) == Len(s) <= Len(t) /\ Take(t, Len(s)) = s

\* Python's None as the speaker_id of mixed-mode chunks
None == "None"

\* Python's None in place of a time (every time of the model is >= 0)
NoTime == -1

(***************************************************************************)
(* normalize_word: re.sub(r'[^\w\s]', '', word).lower().strip()            *)
(***************************************************************************)
\* A text is a sequence of characters, each a string; two characters outside
\* ASCII are named by their code points: LATIN CAPITAL LETTER I WITH DOT ABOVE
\* and COMBINING DOT ABOVE
DottedCapitalI == "U+0130"

CombiningDot == "U+0307"

\* characters matching \w (letters, digits, underscore; a combining mark is
\* none of them)
WordChars == {"a", "b", "c", "i", "A", "B", "C", "_", DottedCapitalI}

SpaceChars == {" "}

\* str.lower() of one character: the dotted capital I becomes two characters
LowerChar(c) ==
    CASE c = "A" -> <<"a">>
      [] c = "B" -> <<"b">>
      [] c = "C" -> <<"c">>
      [] c = DottedCapitalI -> <<"i", CombiningDot>>
      [] OTHER -> <<c>>

\* str.lower()
RECURSIVE lower(_)
lower(s) == IF s = <<>> THEN <<>> ELSE LowerChar(Head(s)) \o lower(Tail(s))

RECURSIVE LStrip(_)
LStrip(s) ==
    IF s # <<>> /\ Head(s) \in SpaceChars THEN LStrip(Tail(s)) ELSE s

RECURSIVE RStrip(_)
RStrip(s) ==
    IF s # <<>> /\ s[Len(s)] \in SpaceChars THEN RStrip(Take(s, Len(s) - 1)) ELSE s

Strip(s) == RStrip(LStrip(s))

normalize_word(word) ==
    LET kept == SelectSeq(word, LAMBDA c : c \in WordChars \cup SpaceChars)
    IN Strip(lower(kept))

\* " ".join(texts)
RECURSIVE Join(_)
Join(texts) ==
    IF texts = <<>> THEN <<>>
    ELSE IF Len(texts) = 1 THEN texts[1]
    ELSE texts[1] \o <<" ">> \o Join(Tail(texts))

(***************************************************************************)
(* HypothesisBuffer                                                        *)
(***************************************************************************)
HypothesisBuffer ==
    [commited_in_buffer |-> <<>>, buffer |-> <<>>, new |-> <<>>,
     last_commited_time |-> 0]

\* hypothesis_buffer.py:50  shift by offset
ShiftWords(new, offset) ==
    [i \in 1..Len(new) |->
        <<new[i].start + offset, new[i].end + offset, new[i].text>>]

\* the slack test with >= where the source has >
KeepRecent_Inclusive(new, lct) ==
    SelectSeq(new, LAMBDA w : w[1] >= lct - COMMIT_SLACK)

\* hypothesis_buffer.py:59  keep the words that start after the slack
KeepRecent(new, lct) ==
    SelectSeq(new, LAMBDA w : w[1] > lct - COMMIT_SLACK)

\* hypothesis_buffer.py:68-70  last i committed words, chronological, joined
NgramCommitted(cib, i) ==
    Join([j \in 1..i |-> normalize_word(cib[Len(cib) - i + j][3])])

\* hypothesis_buffer.py:71-73  first i new words, joined
NgramNew(new, i) ==
    Join([j \in 1..i |-> normalize_word(new[j][3])])

\* the loop without its break: the last matching i wins
RECURSIVE DedupLoop_LastMatch(_, _, _, _)
DedupLoop_LastMatch(cib, new, i, K) ==
    IF i > K THEN 0
    ELSE LET rest == DedupLoop_LastMatch(cib, new, i + 1, K)
         IN IF rest # 0 THEN rest
            ELSE IF NgramCommitted(cib, i) = NgramNew(new, i) THEN i
            ELSE 0

\* hypothesis_buffer.py:67-78  the loop over i with its break: the number of
\* words popped from the front of new (0 when no i matches)
RECURSIVE DedupLoop(_, _, _, _)
DedupLoop(cib, new, i, K) ==
    IF i > K THEN 0
    ELSE IF NgramCommitted(cib, i) = NgramNew(new, i) THEN i
    ELSE DedupLoop(cib, new, i + 1, K)

\* hypothesis_buffer.py:61-78
DedupCount(h, new) ==
    IF Len(new) >= 1
       /\ Abs(new[1][1] - h.last_commited_time) < DEDUP_WINDOW
       /\ h.commited_in_buffer # <<>>
    THEN DedupLoop(h.commited_in_buffer, new, 1,
                   Min(Min(Len(h.commited_in_buffer), Len(new)), MAX_NGRAM))
    ELSE 0

\* hypothesis_buffer.py:43-78
insert(h, new, offset) ==
    LET kept == KeepRecent(ShiftWords(new, offset), h.last_commited_time)
    IN [h EXCEPT !.new = Drop(kept, DedupCount(h, kept))]

\* the loop comparing raw instead of normalised text
RECURSIVE FlushLoop_RawText(_, _, _, _)
FlushLoop_RawText(buffer, new, commit, lct) ==
    IF new = <<>> \/ Len(buffer) = 0 \/ new[1][3] # buffer[1][3]
    THEN [buffer |-> buffer, new |-> new, commit |-> commit, lct |-> lct]
    ELSE FlushLoop_RawText(Tail(buffer), Tail(new), Append(commit, new[1]), new[1][2])

\* hypothesis_buffer.py:88-102  the while loop; the result carries the loop's
\* locals and the fields it assigns
RECURSIVE FlushLoop(_, _, _, _)
FlushLoop(buffer, new, commit, lct) ==
    IF new = <<>> THEN [buffer |-> buffer, new |-> new, commit |-> commit, lct |-> lct]
    ELSE IF Len(buffer) = 0
         THEN [buffer |-> buffer, new |-> new, commit |-> commit, lct |-> lct]
    ELSE IF normalize_word(new[1][3]) = normalize_word(buffer[1][3])
         THEN FlushLoop(Tail(buffer), Tail(new), Append(commit, new[1]), new[1][2])
    ELSE [buffer |-> buffer, new |-> new, commit |-> commit, lct |-> lct]

\* flush that keeps the words of the response before when the new response
\* has none
flush_KeepsBuffer(h) ==
    LET r == FlushLoop(h.buffer, h.new, <<>>, h.last_commited_time)
    IN [h |-> [commited_in_buffer |-> h.commited_in_buffer \o r.commit,
               buffer |-> IF h.new = <<>> THEN h.buffer ELSE r.new,
               new |-> <<>>,
               last_commited_time |-> r.lct],
        commit |-> r.commit]

\* hypothesis_buffer.py:80-111  returns the new object state and the commit list
flush(h) ==
    LET r == FlushLoop(h.buffer, h.new, <<>>, h.last_commited_time)
    IN [h |-> [commited_in_buffer |-> h.commited_in_buffer \o r.commit,
               buffer |-> r.new,
               new |-> <<>>,
               last_commited_time |-> r.lct],
        commit |-> r.commit]

\* hypothesis_buffer.py:113-126
RECURSIVE PopLoop(_, _, _)
PopLoop(cib, time, removed) ==
    IF cib # <<>> /\ cib[1][2] <= time
    THEN PopLoop(Tail(cib), time, Append(removed, cib[1]))
    ELSE [cib |-> cib, removed |-> removed]

pop_commited(h, time) ==
    LET r == PopLoop(h.commited_in_buffer, time, <<>>)
    IN [h |-> [h EXCEPT !.commited_in_buffer = r.cib], removed |-> r.removed]

\* hypothesis_buffer.py:128-136
complete(h) == h.buffer

(***************************************************************************)
(* SharedConversationContext                                               *)
(***************************************************************************)
\* speech_processor.py:42-53  a context with the given history_size
NewSharedContext(history_size) ==
    [history_size |-> history_size,
     all_committed_words |-> <<>>,
     recog_sent_history |-> <<>>]

\* main.py:106  sp_config.get('history_size', 30)
DefaultHistorySize == 30

SharedConversationContext == NewSharedContext(DefaultHistorySize)

UpperChars == {"A", "B", "C"}

LowerChars == {"a", "b", "c"}

\* speech_processor.py:82  does the pattern
\* (?<!\w\.\w.)(?<![A-Z][a-z]\.)(?<=\.|\?)\s match the character at i
SentenceBreak(text, i) ==
    /\ text[i] \in SpaceChars
    /\ i >= 2
    /\ text[i - 1] \in {".", "?"}
    /\ ~(/\ i >= 5
         /\ text[i - 4] \in WordChars
         /\ text[i - 3] = "."
         /\ text[i - 2] \in WordChars)
    /\ ~(/\ i >= 4
         /\ text[i - 3] \in UpperChars
         /\ text[i - 2] \in LowerChars
         /\ text[i - 1] = ".")

\* speech_processor.py:81-84  re.split: the pieces of text[from..] between the
\* matches, the piece begun at from included
RECURSIVE SplitFrom(_, _, _)
SplitFrom(text, from, i) ==
    IF i > Len(text) THEN <<SubSeq(text, from, Len(text))>>
    ELSE IF SentenceBreak(text, i)
         THEN <<SubSeq(text, from, i - 1)>> \o SplitFrom(text, i + 1, i + 1)
         ELSE SplitFrom(text, from, i + 1)

SplitSentences(text) == SplitFrom(text, 1, 1)

\* speech_processor.py:86-87  history[-history_size:] when the history is
\* longer than history_size; in Python [-0:] is the whole list and [-n:] with
\* n < 0 drops the first -n entries
KeepLast(history, history_size) ==
    IF Len(history) > history_size
    THEN (IF history_size = 0 THEN history
          ELSE IF history_size < 0 THEN Drop(history, 0 - history_size)
          ELSE Drop(history, Len(history) - history_size))
    ELSE history

\* a sort that puts w before the words whose start equals its own
RECURSIVE SortedInsert_BeforeEquals(_, _)
SortedInsert_BeforeEquals(sorted, w) ==
    IF sorted = <<>> THEN <<w>>
    ELSE IF sorted[Len(sorted)][1] < w[1] THEN Append(sorted, w)
    ELSE Append(SortedInsert_BeforeEquals(Take(sorted, Len(sorted) - 1), w),
                sorted[Len(sorted)])

\* speech_processor.py:76  list.sort(key=start) is stable: w goes after every
\* word whose start is <= its own
RECURSIVE SortedInsert(_, _)
SortedInsert(sorted, w) ==
    IF sorted = <<>> THEN <<w>>
    ELSE IF sorted[Len(sorted)][1] <= w[1] THEN Append(sorted, w)
    ELSE Append(SortedInsert(Take(sorted, Len(sorted) - 1), w), sorted[Len(sorted)])

RECURSIVE StableSortByStart(_)
StableSortByStart(ws) ==
    IF ws = <<>> THEN <<>>
    ELSE SortedInsert(StableSortByStart(Take(ws, Len(ws) - 1)), ws[Len(ws)])

\* the shared context recording the words without their speaker
add_committed_words_Untagged(ctx, words, speaker_id) ==
    IF words = <<>> THEN ctx
    ELSE [ctx EXCEPT
            !.all_committed_words =
                StableSortByStart(@ \o [i \in 1..Len(words) |->
                    <<words[i][1], words[i][2], words[i][3], None>>])]

\* speech_processor.py:55-95
add_committed_words(ctx, words, speaker_id) ==
    IF words = <<>> THEN ctx
    ELSE LET committed_text == Join([i \in 1..Len(words) |-> words[i][3]])
         IN [ctx EXCEPT
               !.all_committed_words =
                   StableSortByStart(@ \o [i \in 1..Len(words) |->
                       <<words[i][1], words[i][2], words[i][3], speaker_id>>]),
               !.recog_sent_history =
                   IF Strip(committed_text) # <<>>
                   THEN KeepLast(@ \o SplitSentences(Strip(committed_text)),
                                 ctx.history_size)
                   ELSE @]

\* the prompt of the words that end strictly before before_time
build_prompt_Strict(ctx, before_time) ==
    LET sel == SelectSeq(ctx.all_committed_words, LAMBDA w : w[2] < before_time)
    IN Join([i \in 1..Len(sel) |-> sel[i][3]])

\* speech_processor.py:97-110
build_prompt(ctx, before_time) ==
    LET sel == SelectSeq(ctx.all_committed_words, LAMBDA w : w[2] <= before_time)
    IN Join([i \in 1..Len(sel) |-> sel[i][3]])

(***************************************************************************)
(* SpeechProcessor.  audio_buffer is the number of samples held,           *)
(* pre_speech_buffer the lengths of the queued arrays; times are in sample *)
(* periods, so len(audio)/SAMPLING_RATE seconds is len(audio).             *)
(***************************************************************************)
\* speech_processor.py:128  WHISPER_MAX_AUDIO_SEC = 30.0
WHISPER_MAX_AUDIO == 480000

\* speech_processor.py:135  stride_sec = 5.0
stride == 80000

\* speech_processor.py:136  silence_timeout_sec = 1.0
silence_timeout == 16000

\* speech_processor.py:137, 226  int(pre_speech_buffer_sec * SAMPLING_RATE)
max_pre_speech_samples == 16000

\* speech_processor.py:145
buffer_trimming == WHISPER_MAX_AUDIO - stride

RECURSIVE Sum(_)
Sum(ns) == IF ns = <<>> THEN 0 ELSE Head(ns) + Sum(Tail(ns))

\* speech_processor.py:130-170
SpeechProcessor(speaker_id) ==
    [speaker_id |-> speaker_id,
     audio_buffer |-> 0,
     buffer_time_offset |-> 0,
     hypothesis_buffer |-> HypothesisBuffer,
     committed_words |-> <<>>,
     in_speech |-> FALSE,
     last_speech_time |-> NoTime,
     last_asr_time |-> NoTime,
     pre_speech_buffer |-> <<>>]

\* the speech start that keeps the HypothesisBuffer of the utterance before
on_speech_start_KeepsHypothesis(sp, timestamp) ==
    LET pre == Min(Sum(sp.pre_speech_buffer), max_pre_speech_samples)
        offset == IF Len(sp.pre_speech_buffer) > 0 THEN timestamp - pre ELSE timestamp
    IN [sp EXCEPT !.in_speech = TRUE,
                  !.audio_buffer = IF Len(sp.pre_speech_buffer) > 0 THEN pre ELSE 0,
                  !.buffer_time_offset = offset,
                  !.pre_speech_buffer = <<>>,
                  !.hypothesis_buffer = [@ EXCEPT !.last_commited_time = offset],
                  !.last_asr_time = timestamp]

\* speech_processor.py:217-242
on_speech_start(sp, timestamp) ==
    LET pre == Min(Sum(sp.pre_speech_buffer), max_pre_speech_samples)
        offset == IF Len(sp.pre_speech_buffer) > 0 THEN timestamp - pre ELSE timestamp
    IN [sp EXCEPT !.in_speech = TRUE,
                  !.audio_buffer = IF Len(sp.pre_speech_buffer) > 0 THEN pre ELSE 0,
                  !.buffer_time_offset = offset,
                  !.pre_speech_buffer = <<>>,
                  !.hypothesis_buffer = [HypothesisBuffer EXCEPT !.last_commited_time = offset],
                  !.last_asr_time = timestamp]

\* speech_processor.py:228-229  len(pre_speech_audio[-n:]) when the array is
\* longer than n: a slice from -0 is the whole array
LastSamples(total, n) == IF n = 0 THEN total ELSE n

\* speech_processor.py:217-242 for a processor constructed with its own
\* pre_speech_buffer_sec
configured_on_speech_start(sp, timestamp) ==
    LET total == Sum(sp.pre_speech_buffer)
        pre == IF total > sp.pre_speech_buffer_sec
               THEN LastSamples(total, sp.pre_speech_buffer_sec) ELSE total
        offset == IF Len(sp.pre_speech_buffer) > 0 THEN timestamp - pre ELSE timestamp
    IN [sp EXCEPT !.in_speech = TRUE,
                  !.audio_buffer = IF Len(sp.pre_speech_buffer) > 0 THEN pre ELSE 0,
                  !.buffer_time_offset = offset,
                  !.pre_speech_buffer = <<>>,
                  !.hypothesis_buffer = [HypothesisBuffer EXCEPT !.last_commited_time = offset],
                  !.last_asr_time = timestamp]

\* the call that sends the first 30 s of a longer buffer
process_asr_begin_FirstThirty(sp, ctx, timestamp, is_last_chunk) ==
    LET chunk_dur == sp.audio_buffer
    IN IF chunk_dur < stride /\ ~is_last_chunk THEN [awaits |-> FALSE]
       ELSE IF chunk_dur = 0 THEN [awaits |-> FALSE]
       ELSE [awaits |-> TRUE,
             timestamp |-> timestamp,
             is_last_chunk |-> is_last_chunk,
             audio_len |-> IF chunk_dur > WHISPER_MAX_AUDIO THEN WHISPER_MAX_AUDIO
                           ELSE sp.audio_buffer,
             audio_offset |-> sp.buffer_time_offset,
             prompt |-> build_prompt(ctx, sp.buffer_time_offset)]

\* speech_processor.py:273-298  _process_asr up to the await: either it
\* returns [] at once, or it sends a request and waits.  The request carries
\* the locals the rest of the call uses.
process_asr_begin(sp, ctx, timestamp, is_last_chunk) ==
    LET chunk_dur == sp.audio_buffer
    IN IF chunk_dur < stride /\ ~is_last_chunk THEN [awaits |-> FALSE]
       ELSE IF chunk_dur = 0 THEN [awaits |-> FALSE]
       ELSE [awaits |-> TRUE,
             timestamp |-> timestamp,
             is_last_chunk |-> is_last_chunk,
             audio_len |-> IF chunk_dur > WHISPER_MAX_AUDIO THEN WHISPER_MAX_AUDIO
                           ELSE sp.audio_buffer,
             audio_offset |-> IF chunk_dur > WHISPER_MAX_AUDIO
                              THEN sp.buffer_time_offset + (chunk_dur - WHISPER_MAX_AUDIO)
                              ELSE sp.buffer_time_offset,
             prompt |-> build_prompt(ctx, sp.buffer_time_offset)]

\* the test with a strict comparison
SilenceTimedOut_Strict(silence_duration) == silence_duration > silence_timeout

\* speech_processor.py:209  silence_duration >= self.silence_timeout_sec
SilenceTimedOut(silence_duration) == silence_duration >= silence_timeout

\* on_vad_result that queues every silence packet as pre-speech audio, also
\* during a speech
on_vad_result_SilenceBuffered(sp, ctx, is_speech, samples, timestamp) ==
    IF is_speech
    THEN LET s1 == [sp EXCEPT !.last_speech_time = timestamp]
             s2 == IF ~s1.in_speech THEN on_speech_start(s1, timestamp) ELSE s1
             s3 == [s2 EXCEPT !.audio_buffer = @ + samples]
         IN IF s3.last_asr_time # NoTime /\ timestamp - s3.last_asr_time >= stride
            THEN [sp |-> s3, request |-> process_asr_begin(s3, ctx, timestamp, FALSE)]
            ELSE [sp |-> s3, request |-> [awaits |-> FALSE]]
    ELSE LET s0 == [sp EXCEPT !.pre_speech_buffer = Append(@, samples)]
         IN IF sp.in_speech /\ sp.last_speech_time # NoTime
            THEN IF SilenceTimedOut(timestamp - sp.last_speech_time)
                 THEN LET s1 == [s0 EXCEPT !.in_speech = FALSE]
                      IN [sp |-> s1, request |-> process_asr_begin(s1, ctx, timestamp, TRUE)]
                 ELSE [sp |-> s0, request |-> [awaits |-> FALSE]]
            ELSE [sp |-> s0, request |-> [awaits |-> FALSE]]

\* on_vad_result whose speech end leaves the processor in speech
on_vad_result_StaysInSpeech(sp, ctx, is_speech, samples, timestamp) ==
    IF is_speech
    THEN LET s1 == [sp EXCEPT !.last_speech_time = timestamp]
             s2 == IF ~s1.in_speech THEN on_speech_start(s1, timestamp) ELSE s1
             s3 == [s2 EXCEPT !.audio_buffer = @ + samples]
         IN IF s3.last_asr_time # NoTime /\ timestamp - s3.last_asr_time >= stride
            THEN [sp |-> s3, request |-> process_asr_begin(s3, ctx, timestamp, FALSE)]
            ELSE [sp |-> s3, request |-> [awaits |-> FALSE]]
    ELSE IF sp.in_speech /\ sp.last_speech_time # NoTime
         THEN IF SilenceTimedOut(timestamp - sp.last_speech_time)
              THEN [sp |-> sp, request |-> process_asr_begin(sp, ctx, timestamp, TRUE)]
              ELSE [sp |-> sp, request |-> [awaits |-> FALSE]]
         ELSE [sp |-> [sp EXCEPT !.pre_speech_buffer = Append(@, samples)],
               request |-> [awaits |-> FALSE]]

\* speech_processor.py:172-215, 244-256  on_vad_result up to its return or to
\* the await inside _process_asr
on_vad_result(sp, ctx, is_speech, samples, timestamp) ==
    IF is_speech
    THEN LET s1 == [sp EXCEPT !.last_speech_time = timestamp]
             s2 == IF ~s1.in_speech THEN on_speech_start(s1, timestamp) ELSE s1
             s3 == [s2 EXCEPT !.audio_buffer = @ + samples]
         IN IF s3.last_asr_time # NoTime /\ timestamp - s3.last_asr_time >= stride
            THEN [sp |-> s3, request |-> process_asr_begin(s3, ctx, timestamp, FALSE)]
            ELSE [sp |-> s3, request |-> [awaits |-> FALSE]]
    ELSE IF sp.in_speech /\ sp.last_speech_time # NoTime
         THEN IF SilenceTimedOut(timestamp - sp.last_speech_time)
              THEN LET s1 == [sp EXCEPT !.in_speech = FALSE]
                   IN [sp |-> s1, request |-> process_asr_begin(s1, ctx, timestamp, TRUE)]
              ELSE [sp |-> sp, request |-> [awaits |-> FALSE]]
         ELSE [sp |-> [sp EXCEPT !.pre_speech_buffer = Append(@, samples)],
               request |-> [awaits |-> FALSE]]

\* speech_processor.py:310-318  words of the kept segments
RECURSIVE ExtractWords(_)
ExtractWords(segments) ==
    IF segments = <<>> THEN <<>>
    ELSE LET seg == Head(segments)
             ws == [i \in 1..Len(seg.words) |->
                      [seg.words[i] EXCEPT !.text = Strip(seg.words[i].text)]]
         IN (IF seg.no_speech_prob > 90 THEN <<>>
             ELSE SelectSeq(ws, LAMBDA w : w.text # <<>>))
            \o ExtractWords(Tail(segments))

\* speech_processor.py:368-372  end of the newest committed word that ends at
\* or before offset + duration/2 (NoTime when there is none)
RECURSIVE FindTrimTime(_, _, _)
FindTrimTime(committed_words, offset, duration) ==
    IF committed_words = <<>> THEN NoTime
    ELSE LET word == committed_words[Len(committed_words)]
         IN IF 2 * (word[2] - offset) <= duration THEN word[2]
            ELSE FindTrimTime(Take(committed_words, Len(committed_words) - 1),
                              offset, duration)

\* speech_processor.py:360-391
trim_buffer_at_committed_word(sp) ==
    IF sp.committed_words = <<>> THEN sp
    ELSE LET trim_time == FindTrimTime(sp.committed_words, sp.buffer_time_offset,
                                       sp.audio_buffer)
         IN IF trim_time = NoTime THEN sp
            ELSE IF trim_time <= sp.buffer_time_offset THEN sp
            ELSE LET cut_samples == trim_time - sp.buffer_time_offset
                 IN [sp EXCEPT
                       !.audio_buffer = IF cut_samples >= @ THEN 0 ELSE @ - cut_samples,
                       !.buffer_time_offset = trim_time,
                       !.hypothesis_buffer = pop_commited(@, trim_time).h]

\* speech_processor.py:341-343 without the trim
trim_if_long_Never(sp) == sp

\* speech_processor.py:341-343
trim_if_long(sp) ==
    IF sp.audio_buffer > buffer_trimming THEN trim_buffer_at_committed_word(sp) ELSE sp

\* the end of _process_asr that leaves the final tail out of what it returns
process_asr_end_TailNotReturned(sp, ctx, request, segments) ==
    LET s1 == [sp EXCEPT !.last_asr_time = request.timestamp]
        words == ExtractWords(segments)
        fl == flush(insert(s1.hypothesis_buffer, words, request.audio_offset))
        newly_committed == fl.commit
        s2 == [s1 EXCEPT !.hypothesis_buffer = fl.h,
                         !.committed_words = @ \o newly_committed]
        c2 == add_committed_words(ctx, newly_committed, sp.speaker_id)
        s3 == trim_if_long(s2)
        final_uncommitted == IF request.is_last_chunk THEN complete(s3.hypothesis_buffer)
                             ELSE <<>>
        s4 == [s3 EXCEPT !.committed_words = @ \o final_uncommitted]
        c3 == add_committed_words(c2, final_uncommitted, sp.speaker_id)
    IN [sp |-> s4, ctx |-> c3, ret |-> newly_committed]

\* the end of _process_asr that leaves last_asr_time as it was
process_asr_end_AsrTimeKept(sp, ctx, request, segments) ==
    LET words == ExtractWords(segments)
        fl == flush(insert(sp.hypothesis_buffer, words, request.audio_offset))
        newly_committed == fl.commit
        s2 == [sp EXCEPT !.hypothesis_buffer = fl.h,
                         !.committed_words = @ \o newly_committed]
        c2 == add_committed_words(ctx, newly_committed, sp.speaker_id)
        s3 == trim_if_long(s2)
        final_uncommitted == IF request.is_last_chunk THEN complete(s3.hypothesis_buffer)
                             ELSE <<>>
        s4 == [s3 EXCEPT !.committed_words = @ \o final_uncommitted]
        c3 == add_committed_words(c2, final_uncommitted, sp.speaker_id)
    IN [sp |-> s4, ctx |-> c3, ret |-> newly_committed \o final_uncommitted]

\* speech_processor.py:308-358  _process_asr from the recognizer's answer to
\* its return, on the processor's state at that moment
process_asr_end(sp, ctx, request, segments) ==
    LET s1 == [sp EXCEPT !.last_asr_time = request.timestamp]
        words == ExtractWords(segments)
        fl == flush(insert(s1.hypothesis_buffer, words, request.audio_offset))
        newly_committed == fl.commit
        s2 == [s1 EXCEPT !.hypothesis_buffer = fl.h,
                         !.committed_words = @ \o newly_committed]
        c2 == add_committed_words(ctx, newly_committed, sp.speaker_id)
        s3 == trim_if_long(s2)
        final_uncommitted == IF request.is_last_chunk THEN complete(s3.hypothesis_buffer)
                             ELSE <<>>
        s4 == [s3 EXCEPT !.committed_words = @ \o final_uncommitted]
        c3 == add_committed_words(c2, final_uncommitted, sp.speaker_id)
    IN [sp |-> s4, ctx |-> c3, ret |-> newly_committed \o final_uncommitted]

(***************************************************************************)
(* Recognizer words.  A response lists its words in chronological order    *)
(* without overlap (each word starts no earlier than the previous one      *)
(* ends), each with start <= end; times are relative to the start of the   *)
(* audio that was sent.                                                    *)
(***************************************************************************)
MaxWords == 2

\* The words a response is made of: "a"/"A." at 0.1 s..0.2 s, a short
\* "a"/"b" at 0.15 s..0.1875 s (inside the 0.1 s slack before 0.2 s),
\* "a"/"b" at 0.2 s..0.25 s, and "b" more than one second later.  "a" and
\* "A." are equal after normalisation.
WordDicts ==
    {[start |-> 1600, end |-> 3200, text |-> <<"a">>],
     [start |-> 1600, end |-> 3200, text |-> <<"A", ".">>],
     [start |-> 2400, end |-> 3000, text |-> <<"a">>],
     [start |-> 2400, end |-> 3000, text |-> <<"b">>],
     [start |-> 3200, end |-> 4000, text |-> <<"a">>],
     [start |-> 3200, end |-> 4000, text |-> <<"b">>],
     [start |-> 19200, end |-> 20000, text |-> <<"b">>]}

Chronological(ws) == \A i \in 1..(Len(ws) - 1) : ws[i].end <= ws[i + 1].start

WordLists ==
    {ws \in UNION {[1..n -> WordDicts] : n \in 0..MaxWords} : Chronological(ws)}

\* offsets added by the caller: 0 and 0.05 s
Offsets == {0, 800}

\* thresholds handed to pop_commited
PopTimes == {3200, 4000}

(***************************************************************************)
(* State                                                                   *)
(***************************************************************************)
VARIABLES
    hb,         \* a HypothesisBuffer driven directly by its four methods
    hb_call,    \* the last call on hb: method, arguments and return value
    hb_out,     \* concatenation of everything flush() returned on hb
    hb_n,       \* number of calls made on hb
    per_speaker_processing, \* individual (TRUE) or mixed (FALSE) stream mode
    vad_buffers,    \* stream key -> pending samples of its vad_buffer
    fr_input,       \* stream key -> every sample add_audio appended, in order
    fr_packets,     \* the AudioChunks handed to the VAD callback, in order
    fr_tasks,       \* add_audio calls suspended inside the VAD callback
    fr_calls,       \* number of add_audio calls so far
    fr_flushed,     \* AudioBuffer.flush() has run
    packet_samples,     \* samples per VAD packet reaching the SpeechProcessors
    clock,              \* datetime.utcnow(), in sample periods
    speech_processors,  \* key -> SpeechProcessor state
    sp_order,           \* the keys of speech_processors in creation order
    shared_context,     \* the SharedConversationContext
    transcriptions,     \* TranscriptionHandler.transcriptions (the sink)
    asr_tasks,          \* coroutines awaiting asr_client.transcribe
    asr_calls,          \* number of recognizer requests sent so far
    n_packets,          \* number of VAD packets handled so far
    stop_pos,           \* 0 while running; in stop(): index in sp_order of the
                        \* processor being flushed, Len(sp_order) + 1 once done
    ctx_calls,          \* number of direct add_committed_words calls
    ctx_last,           \* the words of the last direct add_committed_words call
    speech_buffers,     \* stream key -> speech_buffer, is_speech_active and
                        \* last_speech_time of the AudioBuffer (of its
                        \* SpeakerBuffer in individual mode)
    asr_segments,       \* the AudioChunks handed to the ASR callback, in order
    seg_tasks,          \* AudioBuffer.on_vad_result calls suspended inside the
                        \* ASR callback at the end of a speech
    seg_clock,          \* datetime.utcnow() as read by AudioBuffer.on_vad_result
    seg_calls,          \* number of AudioBuffer.on_vad_result calls so far
    seg_call,           \* the last AudioBuffer.on_vad_result call: its arguments
    config,             \* the speech_processor section of the configuration
    is_running          \* RTMSTranscriptionSystem.is_running

hypVars == <<hb, hb_call, hb_out, hb_n>>

frVars == <<vad_buffers, fr_input, fr_packets, fr_tasks, fr_calls, fr_flushed>>

sysVars == <<packet_samples, clock, speech_processors, sp_order, shared_context,
             transcriptions, asr_tasks, asr_calls, n_packets, stop_pos>>

ctxVars == <<ctx_calls, ctx_last>>

segVars == <<speech_buffers, asr_segments, seg_tasks, seg_clock, seg_calls, seg_call>>

startVars == <<config, is_running>>

vars == <<hypVars, per_speaker_processing, frVars, sysVars, ctxVars, segVars,
          startVars>>

(***************************************************************************)
(* HypothesisBuffer driven by arbitrary call sequences                     *)
(***************************************************************************)
MaxCalls == 6

NoCall == [op |-> "none"]

HypIdle ==
    /\ hb = HypothesisBuffer
    /\ hb_call = NoCall
    /\ hb_out = <<>>
    /\ hb_n = 0

FramerIdle ==
    /\ vad_buffers = <<>>
    /\ fr_input = <<>>
    /\ fr_packets = <<>>
    /\ fr_tasks = {}
    /\ fr_calls = 0
    /\ fr_flushed = FALSE

SystemIdle ==
    /\ packet_samples = 0
    /\ clock = 0
    /\ speech_processors = <<>>
    /\ sp_order = <<>>
    /\ shared_context = SharedConversationContext
    /\ transcriptions = <<>>
    /\ asr_tasks = {}
    /\ asr_calls = 0
    /\ n_packets = 0
    /\ stop_pos = 0

ContextIdle ==
    /\ ctx_calls = 0
    /\ ctx_last = <<>>

\* the configuration the other specifications run under: the defaults
DefaultConfig ==
    [stride_seconds |-> stride, silence_timeout_seconds |-> silence_timeout,
     pre_speech_buffer_seconds |-> max_pre_speech_samples,
     history_size |-> DefaultHistorySize]

StartupIdle ==
    /\ config = DefaultConfig
    /\ is_running = FALSE

SegmentsIdle ==
    /\ speech_buffers = <<>>
    /\ asr_segments = <<>>
    /\ seg_tasks = {}
    /\ seg_clock = 0
    /\ seg_calls = 0
    /\ seg_call = NoCall

HypInit ==
    /\ HypIdle /\ FramerIdle /\ SystemIdle /\ ContextIdle /\ SegmentsIdle
    /\ StartupIdle
    /\ per_speaker_processing = FALSE

HypInsert ==
    /\ hb_n < MaxCalls
    /\ \E ws \in WordLists, off \in Offsets :
          /\ hb' = insert(hb, ws, off)
          /\ hb_call' = [op |-> "insert", words |-> ws, offset |-> off]
    /\ hb_n' = hb_n + 1
    /\ UNCHANGED <<hb_out, per_speaker_processing, frVars, sysVars, ctxVars, segVars, startVars>>

HypFlush ==
    /\ hb_n < MaxCalls
    /\ LET r == flush(hb)
       IN /\ hb' = r.h
          /\ hb_call' = [op |-> "flush", ret |-> r.commit]
          /\ hb_out' = hb_out \o r.commit
    /\ hb_n' = hb_n + 1
    /\ UNCHANGED <<per_speaker_processing, frVars, sysVars, ctxVars, segVars, startVars>>

HypPopCommited ==
    /\ hb_n < MaxCalls
    /\ \E t \in PopTimes :
          LET r == pop_commited(hb, t)
          IN /\ hb' = r.h
             /\ hb_call' = [op |-> "pop_commited", time |-> t, ret |-> r.removed]
    /\ hb_n' = hb_n + 1
    /\ UNCHANGED <<hb_out, per_speaker_processing, frVars, sysVars, ctxVars, segVars, startVars>>

HypComplete ==
    /\ hb_n < MaxCalls
    /\ hb_call' = [op |-> "complete", ret |-> complete(hb)]
    /\ hb_n' = hb_n + 1
    /\ UNCHANGED <<hb, hb_out, per_speaker_processing, frVars, sysVars, ctxVars, segVars, startVars>>

HypNext == HypInsert \/ HypFlush \/ HypPopCommited \/ HypComplete

SpecHyp == HypInit /\ [][HypNext]_vars

(***************************************************************************)
(* normalize_word applied to arbitrary short texts                         *)
(***************************************************************************)
MaxWordLen == 3

\* the characters a word text is made of here
TextChars == {"a", "A", "i", DottedCapitalI, CombiningDot, ".", " "}

RECURSIVE TextsUpTo(_)
TextsUpTo(n) ==
    IF n = 0 THEN {<<>>}
    ELSE LET shorter == TextsUpTo(n - 1)
         IN shorter \cup {Append(t, c) : t \in shorter, c \in TextChars}

\* hypothesis_buffer.py:18-27  normalize_word(word) is called on some text
NormalizeWord ==
    /\ hb_n = 0
    /\ \E word \in TextsUpTo(MaxWordLen) :
          hb_call' = [op |-> "normalize_word", word |-> word, ret |-> normalize_word(word)]
    /\ hb_n' = 1
    /\ UNCHANGED <<hb, hb_out, per_speaker_processing, frVars, sysVars, ctxVars,
                   segVars, startVars>>

SpecNormalize == HypInit /\ [][NormalizeWord]_vars

(***************************************************************************)
(* AudioBuffer: framing of platform audio into VAD packets                 *)
(* (add_audio, _add_audio_mixed, _add_audio_per_speaker, flush).           *)
(* add_audio runs as one asyncio task per platform frame                   *)
(* (rtms_client.py:268-270); it can be suspended only inside               *)
(* `await self.vad_packet_callback(...)`.  A sample is <<call, index>>;    *)
(* the timestamp of a call (utcnow at rtms_client.py:254) is its number.   *)
(***************************************************************************)
\* vad_packet_samples of the framer configuration checked here
\* (audio_buffer.py:68, from sample_rate and vad_duration_ms)
vad_packet_samples == 3

MaxFrame == 4

MaxAudioCalls == 3

Participants == {"A", "B"}

\* the mixed-mode buffer self.vad_buffer; its packets carry speaker_id None
MIXED == "__mixed__"

\* How many VAD callbacks of one run return without suspending before one
\* suspends (the callback awaits the recognizer, or not)
SyncBudgets == 0..2

Put(f, k, v) == [x \in (DOMAIN f) \cup {k} |-> IF x = k THEN v ELSE f[x]]

\* audio_buffer.py:124-129, 159-160  the buffer an add_audio call works on
StreamKey(speaker_id) ==
    IF per_speaker_processing
    THEN (IF speaker_id = None THEN "unknown" ELSE speaker_id)
    ELSE MIXED

\* the AudioChunk emitted without its speaker
ChunkSpeaker_Untagged(key) == None

\* audio_buffer.py:149, 182  speaker_id of the emitted AudioChunk
ChunkSpeaker(key) == IF key = MIXED THEN None ELSE key

\* the loop slicing while at least one sample is pending, forwarding a
\* shorter tail as a packet
RECURSIVE SliceLoop_Partial(_, _, _)
SliceLoop_Partial(buf, emitted, budget) ==
    IF Len(buf) >= 1
    THEN LET n == Min(vad_packet_samples, Len(buf))
         IN IF budget = 0
            THEN [buf |-> Drop(buf, n), packets |-> Append(emitted, Take(buf, n)),
                  suspended |-> TRUE]
            ELSE SliceLoop_Partial(Drop(buf, n), Append(emitted, Take(buf, n)), budget - 1)
    ELSE [buf |-> buf, packets |-> emitted, suspended |-> FALSE]

\* the loop that leaves the last sample of each packet in the buffer
RECURSIVE SliceLoop_Overlapping(_, _, _)
SliceLoop_Overlapping(buf, emitted, budget) ==
    IF Len(buf) >= vad_packet_samples
    THEN LET vad_packet == Take(buf, vad_packet_samples)
             rest == Drop(buf, vad_packet_samples - 1)
         IN IF budget = 0
            THEN [buf |-> rest, packets |-> Append(emitted, vad_packet),
                  suspended |-> TRUE]
            ELSE SliceLoop_Overlapping(rest, Append(emitted, vad_packet), budget - 1)
    ELSE [buf |-> buf, packets |-> emitted, suspended |-> FALSE]

\* audio_buffer.py:141-150, 174-183  the while loop from its test up to the
\* callback that suspends (budget callbacks return first) or to its exit
RECURSIVE SliceLoop(_, _, _)
SliceLoop(buf, emitted, budget) ==
    IF Len(buf) >= vad_packet_samples
    THEN LET vad_packet == Take(buf, vad_packet_samples)
             rest == Drop(buf, vad_packet_samples)
         IN IF budget = 0
            THEN [buf |-> rest, packets |-> Append(emitted, vad_packet),
                  suspended |-> TRUE]
            ELSE SliceLoop(rest, Append(emitted, vad_packet), budget - 1)
    ELSE [buf |-> buf, packets |-> emitted, suspended |-> FALSE]

\* the concatenation with its operands swapped
Concatenate_Swapped(buf, audio_array) == audio_array \o buf

\* audio_buffer.py:138, 171  np.concatenate([vad_buffer, audio_array])
Concatenate(buf, audio_array) == buf \o audio_array

AudioChunks(datas, timestamp, key) ==
    [i \in 1..Len(datas) |->
        [data |-> datas[i], timestamp |-> timestamp, speaker_id |-> ChunkSpeaker(key)]]

\* The rest of an add_audio call on stream key from the loop test on
RunSliceLoop(task, buffers, budget) ==
    LET r == SliceLoop(buffers[task.key], <<>>, budget)
    IN /\ vad_buffers' = [buffers EXCEPT ![task.key] = r.buf]
       /\ fr_packets' = fr_packets \o AudioChunks(r.packets, task.timestamp, task.key)
       /\ fr_tasks' = IF r.suspended THEN (fr_tasks \ {task}) \cup {task}
                      ELSE fr_tasks \ {task}

\* audio_buffer.py:21-35, 74-79  the speech state of a new SpeakerBuffer, and of
\* a mixed-mode AudioBuffer after construction
SpeakerBuffer ==
    [speech_buffer |-> <<>>, is_speech_active |-> FALSE, last_speech_time |-> NoTime]

\* audio_buffer.py:105-183  a new add_audio(audio_data, timestamp, speaker_id)
\* task with a frame of one of the given speakers and sizes, up to its first
\* suspension or its end; in individual mode it creates the SpeakerBuffer of a
\* new speaker
AddAudioFrames(speakers, sizes) ==
    /\ ~fr_flushed
    /\ fr_calls < MaxAudioCalls
    /\ \E speaker_id \in speakers, n \in sizes, budget \in SyncBudgets :
          LET key == StreamKey(speaker_id)
              audio_array == [i \in 1..n |-> <<fr_calls + 1, i>>]
              old == IF key \in DOMAIN vad_buffers THEN vad_buffers[key] ELSE <<>>
              oldin == IF key \in DOMAIN fr_input THEN fr_input[key] ELSE <<>>
              task == [key |-> key, timestamp |-> fr_calls + 1]
          IN /\ fr_input' = Put(fr_input, key, oldin \o audio_array)
             /\ speech_buffers' = IF key \in DOMAIN speech_buffers THEN speech_buffers
                                  ELSE Put(speech_buffers, key, SpeakerBuffer)
             /\ RunSliceLoop(task, Put(vad_buffers, key, Concatenate(old, audio_array)),
                             budget)
    /\ fr_calls' = fr_calls + 1
    /\ UNCHANGED <<per_speaker_processing, fr_flushed, hypVars, sysVars, ctxVars, startVars>>
    /\ UNCHANGED <<asr_segments, seg_tasks, seg_clock, seg_calls, seg_call>>

\* a platform frame of any size up to MaxFrame arrives
AddAudio == AddAudioFrames(Participants, 0..MaxFrame)

\* audio_buffer.py:141-150, 174-183  the VAD callback of a suspended add_audio
\* returns: the call goes on with its while loop
ResumeAddAudio ==
    /\ \E task \in fr_tasks, budget \in SyncBudgets :
          RunSliceLoop(task, vad_buffers, budget)
    /\ UNCHANGED <<per_speaker_processing, fr_input, fr_calls, fr_flushed, hypVars, sysVars, ctxVars, segVars, startVars>>

\* audio_buffer.py:378-408  flush() sends speech_buffer segments only; it
\* reads and writes no vad_buffer and hands nothing to the VAD callback.
\* Every speech_buffer is empty here, so nothing is sent.
FlushAudioBuffer ==
    /\ ~fr_flushed
    /\ \A k \in DOMAIN speech_buffers : speech_buffers[k].speech_buffer = <<>>
    /\ fr_flushed' = TRUE
    /\ UNCHANGED <<per_speaker_processing, vad_buffers, fr_input, fr_packets,
                   fr_tasks, fr_calls, hypVars, sysVars, ctxVars, segVars, startVars>>

\* audio_buffer.py:50-95  construction in either mode
FramerInit ==
    /\ per_speaker_processing \in BOOLEAN
    /\ vad_buffers = IF per_speaker_processing THEN <<>> ELSE [k \in {MIXED} |-> <<>>]
    /\ fr_input = <<>>
    /\ fr_packets = <<>>
    /\ fr_tasks = {}
    /\ fr_calls = 0
    /\ fr_flushed = FALSE
    /\ speech_buffers = IF per_speaker_processing THEN <<>>
                        ELSE [k \in {MIXED} |-> SpeakerBuffer]
    /\ asr_segments = <<>>
    /\ seg_tasks = {}
    /\ seg_clock = 0
    /\ seg_calls = 0
    /\ seg_call = NoCall
    /\ HypIdle
    /\ SystemIdle
    /\ ContextIdle
    /\ StartupIdle

FramerNext == AddAudio \/ ResumeAddAudio \/ FlushAudioBuffer

SpecFramer == FramerInit /\ [][FramerNext]_vars

(***************************************************************************)
(* AudioBuffer: grouping of VAD results into ASR segments (on_vad_result,   *)
(* _on_vad_result_mixed, _on_vad_result_per_speaker, _send_to_asr_mixed,    *)
(* _send_to_asr_per_speaker).  A call can be suspended only inside         *)
(* `await self.asr_segment_callback(...)`; after the send at the end of a  *)
(* speech the call still has the reset of lines 246-247 / 314-315 to do.   *)
(* Times are in units of half the silence timeout.                         *)
(***************************************************************************)
\* asr_segment_samples of the configuration checked here
\* (audio_buffer.py:69, from asr_duration_seconds and sample_rate)
asr_segment_samples == 3

\* min_samples (audio_buffer.py:232-235, from min_speech_duration_ms)
min_samples == 2

\* silence_timeout_seconds of the AudioBuffer (audio_buffer.py:55)
silence_timeout_seconds == 2

MaxVadResults == 4

\* samples in the chunk of a VAD result: a VAD packet is no longer than an
\* ASR segment
ChunkSizes == {1, 2}

\* Time since the call before: speech results follow at once, a non-speech
\* result comes half a silence timeout or a whole one later
SegDelays(is_speech) == IF is_speech THEN {0} ELSE {1, 2}

\* samples in the chunk of a non-speech result, which are never read
SilenceSizes == {1}

\* _send_to_asr that sends the whole buffer
send_to_asr_Whole(sb, timestamp, key) ==
    IF sb.speech_buffer = <<>> THEN [sb |-> sb, sent |-> <<>>]
    ELSE [sb |-> [sb EXCEPT !.speech_buffer = <<>>],
          sent |-> <<[data |-> sb.speech_buffer, timestamp |-> timestamp,
                      speaker_id |-> ChunkSpeaker(key)]>>]

\* audio_buffer.py:317-342, 344-376  _send_to_asr_mixed / _per_speaker up to the
\* await of the callback: the segment handed over and the buffer left
send_to_asr(sb, timestamp, key) ==
    IF sb.speech_buffer = <<>> THEN [sb |-> sb, sent |-> <<>>]
    ELSE [sb |-> [sb EXCEPT !.speech_buffer = Drop(@, Min(asr_segment_samples, Len(@)))],
          sent |-> <<[data |-> Take(sb.speech_buffer,
                                    Min(asr_segment_samples, Len(sb.speech_buffer))),
                      timestamp |-> timestamp,
                      speaker_id |-> ChunkSpeaker(key)]>>]

\* the test of the minimum speech length with a strict comparison
LongEnough_Strict(speech_buffer) == Len(speech_buffer) > min_samples

\* audio_buffer.py:237, 302  len(speech_buffer) >= min_samples
LongEnough(speech_buffer) == Len(speech_buffer) >= min_samples

\* audio_buffer.py:246-247, 314-315  the reset at the end of a speech
ResetSpeech(sb) == [sb EXCEPT !.is_speech_active = FALSE, !.speech_buffer = <<>>]

\* audio_buffer.py:197-247, 249-315  on_vad_result on the speech state sb of
\* its stream, up to its return or to the await of the ASR callback; ends
\* tells that the call is in the end-of-speech branch, whose reset follows
\* the callback
segment_on_vad_result(sb, is_speech, data, timestamp, current_time, key) ==
    IF is_speech
    THEN LET s1 == [sb EXCEPT !.is_speech_active = TRUE,
                              !.last_speech_time = current_time,
                              !.speech_buffer = @ \o data]
         IN IF Len(s1.speech_buffer) >= asr_segment_samples
            THEN send_to_asr(s1, timestamp, key) @@ [ends |-> FALSE]
            ELSE [sb |-> s1, sent |-> <<>>, ends |-> FALSE]
    ELSE IF sb.is_speech_active
            /\ current_time - sb.last_speech_time >= silence_timeout_seconds
         THEN IF LongEnough(sb.speech_buffer)
              THEN send_to_asr(sb, timestamp, key) @@ [ends |-> TRUE]
              ELSE [sb |-> sb, sent |-> <<>>, ends |-> TRUE]
         ELSE [sb |-> sb, sent |-> <<>>, ends |-> FALSE]

\* audio_buffer.py:185-315  a new on_vad_result(is_speech, audio_chunk) call, up
\* to its end or to its suspension inside the ASR callback.  In individual
\* mode a result for a speaker without SpeakerBuffer is ignored.
OnVadResult ==
    /\ seg_calls < MaxVadResults
    /\ \E speaker_id \in Participants, is_speech \in BOOLEAN, suspends \in BOOLEAN :
       \E n \in (IF is_speech THEN ChunkSizes ELSE SilenceSizes),
          dt \in SegDelays(is_speech) :
          LET key == StreamKey(speaker_id)
              current_time == seg_clock + dt
              data == [i \in 1..n |-> <<seg_calls + 1, i>>]
              timestamp == seg_calls + 1
          IN /\ seg_clock' = current_time
             /\ seg_call' = [key |-> key, is_speech |-> is_speech, data |-> data,
                             timestamp |-> timestamp]
             /\ IF key \notin DOMAIN speech_buffers
                THEN UNCHANGED <<speech_buffers, asr_segments, seg_tasks>>
                ELSE LET r == segment_on_vad_result(speech_buffers[key], is_speech, data,
                                                    timestamp, current_time, key)
                         waits == r.ends /\ r.sent # <<>> /\ suspends
                     IN /\ speech_buffers' =
                              [speech_buffers EXCEPT
                                  ![key] = IF r.ends /\ ~waits THEN ResetSpeech(r.sb)
                                           ELSE r.sb]
                        /\ asr_segments' = asr_segments \o r.sent
                        /\ seg_tasks' = IF waits
                                        THEN seg_tasks \cup {[key |-> key, id |-> timestamp]}
                                        ELSE seg_tasks
    /\ seg_calls' = seg_calls + 1
    /\ UNCHANGED <<hypVars, per_speaker_processing, frVars, sysVars, ctxVars, startVars>>

\* audio_buffer.py:245-247, 313-315  the ASR callback of a call suspended at
\* the end of a speech returns: the call resets the speech state
ResumeOnVadResult ==
    /\ \E task \in seg_tasks :
          /\ speech_buffers' = [speech_buffers EXCEPT ![task.key] = ResetSpeech(@)]
          /\ seg_tasks' = seg_tasks \ {task}
    /\ UNCHANGED <<asr_segments, seg_clock, seg_calls, seg_call>>
    /\ UNCHANGED <<hypVars, per_speaker_processing, frVars, sysVars, ctxVars, startVars>>

\* a frame shorter than a VAD packet
ShortFrames == {1}

\* Whose frame comes next: a participant not heard before, "A" naming the
\* one heard first (participant ids are interchangeable)
NewSpeakers ==
    IF "A" \notin DOMAIN speech_buffers THEN {"A"}
    ELSE {p \in Participants : p \notin DOMAIN speech_buffers}

\* the first platform frame of a participant arrives while VAD results are
\* being handled (individual mode)
AddShortAudio == per_speaker_processing /\ AddAudioFrames(NewSpeakers, ShortFrames)

SegmentsNext == AddShortAudio \/ OnVadResult \/ ResumeOnVadResult

\* audio_buffer.py:50-95  the AudioBuffer after construction, in either mode
SegmentsInit == FramerInit

SpecSegments == SegmentsInit /\ [][SegmentsNext]_vars

(***************************************************************************)
(* The transcription system: VAD packets reach the SpeechProcessors as     *)
(* interleaved tasks, each suspended only while it awaits the recognizer;  *)
(* committed words are forwarded to the TranscriptionHandler.              *)
(***************************************************************************)
MaxPackets == 3

\* samples per VAD packet (vad_packet_duration_ms of the configuration): 5 s
\* and 15 s packets, so that a few packets span the stride and the 30 s cap
PacketConfigs == {80000, 240000}

\* wall-clock time between two packets' timestamps: a burst (the packets of
\* one frame share its timestamp) and one stride
Delays == {0, stride}

\* datetime.utcnow() when the meeting starts
StartTime == 16000

Seg(no_speech_prob, words) == [no_speech_prob |-> no_speech_prob, words |-> words]

Wd(start, end, text) == [start |-> start, end |-> end, text |-> text]

\* What asr_client.transcribe can answer: no segment (also a failed request),
\* a segment judged to be no speech, and segments with one or two words
AsrResponses ==
    {<<>>,
     <<Seg(95, <<Wd(1600, 3200, <<"a">>)>>)>>,
     <<Seg(0, <<Wd(1600, 3200, <<"a">>)>>)>>,
     <<Seg(0, <<Wd(1600, 3200, <<"A", ".">>), Wd(3200, 4000, <<"b">>)>>)>>,
     <<Seg(0, <<Wd(2400, 3000, <<"b">>)>>)>>,
     <<Seg(0, <<Wd(800, 1600, <<" ">>), Wd(1600, 3200, <<"a">>)>>)>>}

\* transcription_handler.py:74-116 with the last entry replaced
add_transcription_Replace(list, text, speaker_id, timestamp, start_time, end_time) ==
    Take(list, Len(list) - 1) \o
        <<[text |-> text, speaker_id |-> speaker_id, timestamp |-> timestamp,
           start_time |-> start_time, end_time |-> end_time]>>

\* transcription_handler.py:74-116
add_transcription(list, text, speaker_id, timestamp, start_time, end_time) ==
    Append(list, [text |-> text, speaker_id |-> speaker_id, timestamp |-> timestamp,
                  start_time |-> start_time, end_time |-> end_time])

\* the loop forwarding the returned words from the last to the first
RECURSIVE Forward_Reversed(_, _, _, _)
Forward_Reversed(list, words, speaker_id, timestamp) ==
    IF words = <<>> THEN list
    ELSE Forward_Reversed(add_transcription(list, words[Len(words)][3], speaker_id,
                                            timestamp, words[Len(words)][1],
                                            words[Len(words)][2]),
                          Take(words, Len(words) - 1), speaker_id, timestamp)

\* main.py:313-320, 373-380  the loop forwarding the returned words
RECURSIVE Forward(_, _, _, _)
Forward(list, words, speaker_id, timestamp) ==
    IF words = <<>> THEN list
    ELSE Forward(add_transcription(list, Head(words)[3], speaker_id, timestamp,
                                   Head(words)[1], Head(words)[2]),
                 Tail(words), speaker_id, timestamp)

\* the key with every participant served by the processor 'unknown'
ProcessorKey_Shared(speaker_id) ==
    IF ~per_speaker_processing THEN MIXED ELSE "unknown"

\* main.py:172-187  key of the processor serving a chunk
ProcessorKey(speaker_id) ==
    IF ~per_speaker_processing THEN MIXED
    ELSE IF speaker_id = None THEN "unknown" ELSE speaker_id

\* Whose audio the next packet can hold.  Participant ids are interchangeable,
\* so "A" names the participant heard first; in mixed mode the packet carries
\* no participant at all
Speakers ==
    IF ~per_speaker_processing \/ "A" \notin DOMAIN speech_processors THEN {"A"}
    ELSE Participants

\* main.py:100-121, 203-204  the orchestrator after construction and start
SystemInit ==
    /\ per_speaker_processing \in BOOLEAN
    /\ packet_samples \in PacketConfigs
    /\ clock = StartTime
    /\ speech_processors = IF per_speaker_processing THEN <<>>
                           ELSE [k \in {MIXED} |-> SpeechProcessor(None)]
    /\ sp_order = IF per_speaker_processing THEN <<>> ELSE <<MIXED>>
    /\ shared_context = SharedConversationContext
    /\ transcriptions = <<>>
    /\ asr_tasks = {}
    /\ asr_calls = 0
    /\ n_packets = 0
    /\ stop_pos = 0
    /\ config = DefaultConfig
    /\ is_running = TRUE
    /\ HypIdle
    /\ FramerIdle
    /\ SegmentsIdle
    /\ ContextIdle

\* main.py:289-320 up to the await inside processor.on_vad_result, or to the
\* end when nothing is awaited (nothing is forwarded then: on_vad_result
\* returns [])
VadPackets(max_packets, delays, verdicts) ==
    /\ stop_pos = 0
    /\ n_packets < max_packets
    /\ \E participant \in Speakers, is_speech \in verdicts, dt \in delays :
        LET timestamp == clock + dt
            chunk_speaker == IF per_speaker_processing THEN participant ELSE None
            key == ProcessorKey(chunk_speaker)
            created == key \notin DOMAIN speech_processors
            processor == IF created THEN SpeechProcessor(key) ELSE speech_processors[key]
            r == on_vad_result(processor, shared_context, is_speech,
                               packet_samples, timestamp)
        IN /\ clock' = timestamp
           /\ speech_processors' = Put(speech_processors, key, r.sp)
           /\ sp_order' = IF created THEN Append(sp_order, key) ELSE sp_order
           /\ IF r.request.awaits
              THEN /\ asr_tasks' = asr_tasks \cup
                        {[id |-> asr_calls + 1, key |-> key, kind |-> "vad",
                          speaker_id |-> chunk_speaker, timestamp |-> timestamp,
                          request |-> r.request]}
                   /\ asr_calls' = asr_calls + 1
              ELSE UNCHANGED <<asr_tasks, asr_calls>>
           /\ n_packets' = n_packets + 1
    /\ UNCHANGED <<packet_samples, shared_context, transcriptions, stop_pos>>
    /\ UNCHANGED <<hypVars, per_speaker_processing, frVars, ctxVars, segVars, startVars>>

\* a packet of speech or of silence, as the VAD judges it
VadPacketReady(max_packets, delays) == VadPackets(max_packets, delays, BOOLEAN)

\* a packet of a meeting with several participants
OnVadPacketReady == VadPacketReady(MaxPackets, Delays)

\* does flush() of a processor that holds audio outside speech run too
FlushRuns_AnyAudio(sp) == sp.audio_buffer > 0

\* speech_processor.py:393-402  does flush() run _process_asr
FlushRuns(sp) == sp.in_speech /\ sp.audio_buffer > 0

\* main.py:372-373  the processor the loop of stop() stops at: the first one
\* from position pos whose flush() awaits the recognizer
RECURSIVE NextFlush(_, _, _)
NextFlush(pos, order, sps) ==
    IF pos > Len(order) THEN pos
    ELSE IF FlushRuns(sps[order[pos]]) THEN pos
    ELSE NextFlush(pos + 1, order, sps)

\* speech_processor.py:397-401  the request flush() sends
FlushTask(id, key, sp, ctx) ==
    [id |-> id, key |-> key, kind |-> "flush", speaker_id |-> sp.speaker_id,
     timestamp |-> NoTime,
     request |-> process_asr_begin(sp, ctx, sp.buffer_time_offset + sp.audio_buffer, TRUE)]

\* main.py:372-386 from position pos on, up to the next await; past the last
\* processor stop() goes on to audio_buffer.flush(), which finds every
\* speech_buffer empty (no on_vad_result of the AudioBuffer is ever called)
StopLoop(pos, sps) ==
    LET p == NextFlush(pos, sp_order, sps)
    IN /\ stop_pos' = p
       /\ fr_flushed' = (p > Len(sp_order))
       /\ IF p <= Len(sp_order)
          THEN /\ asr_tasks' = {t \in asr_tasks : t.kind = "vad"} \cup
                     {FlushTask(asr_calls + 1, sp_order[p], sps[sp_order[p]],
                                shared_context')}
               /\ asr_calls' = asr_calls + 1
          ELSE /\ asr_tasks' = {t \in asr_tasks : t.kind = "vad"}
               /\ UNCHANGED asr_calls

\* main.py:365-373  stop() up to the first await of a recognizer
Stop ==
    /\ is_running
    /\ stop_pos = 0
    /\ is_running' = FALSE
    /\ UNCHANGED <<shared_context, speech_processors>>
    /\ StopLoop(1, speech_processors)
    /\ UNCHANGED <<packet_samples, clock, sp_order, transcriptions, n_packets>>
    /\ UNCHANGED <<vad_buffers, fr_input, fr_packets, fr_tasks, fr_calls>>
    /\ UNCHANGED <<hypVars, per_speaker_processing, ctxVars, segVars, config>>

\* speech_processor.py:308-358 and main.py:313-320  the recognizer answers a
\* request sent from on_vad_result; the words go to the sink under the
\* chunk's speaker_id and timestamp
AsrAnswers(responses) ==
    \E task \in asr_tasks, segments \in responses :
        /\ task.kind = "vad"
        /\ LET r == process_asr_end(speech_processors[task.key], shared_context,
                                    task.request, segments)
           IN /\ speech_processors' = [speech_processors EXCEPT ![task.key] = r.sp]
              /\ shared_context' = r.ctx
              /\ transcriptions' = Forward(transcriptions, r.ret, task.speaker_id,
                                           task.timestamp)
        /\ asr_tasks' = asr_tasks \ {task}
        /\ UNCHANGED <<packet_samples, clock, sp_order, asr_calls, n_packets, stop_pos>>
        /\ UNCHANGED <<hypVars, per_speaker_processing, frVars, ctxVars, segVars, startVars>>

\* the recognizer of a meeting with several participants answers
AsrReturn == AsrAnswers(AsrResponses)

\* speech_processor.py:308-358 and main.py:372-380  the recognizer answers the
\* request sent from flush(); the words go to the sink under the processor's
\* speaker_id, and stop() goes on with the next processor
FlushAnswers(responses) ==
    \E task \in asr_tasks, segments \in responses :
        /\ task.kind = "flush"
        /\ LET r == process_asr_end(speech_processors[task.key], shared_context,
                                    task.request, segments)
           IN /\ speech_processors' = [speech_processors EXCEPT ![task.key] = r.sp]
              /\ shared_context' = r.ctx
              /\ transcriptions' = Forward(transcriptions, r.ret, task.speaker_id, clock)
              /\ StopLoop(stop_pos + 1, [speech_processors EXCEPT ![task.key] = r.sp])
        /\ UNCHANGED <<packet_samples, clock, sp_order, n_packets>>
        /\ UNCHANGED <<vad_buffers, fr_input, fr_packets, fr_tasks, fr_calls>>
        /\ UNCHANGED <<hypVars, per_speaker_processing, ctxVars, segVars, startVars>>

\* the recognizer of a meeting with several participants answers stop()
FlushReturn == FlushAnswers(AsrResponses)

Next == OnVadPacketReady \/ AsrReturn \/ Stop \/ FlushReturn

Spec == SystemInit /\ [][Next]_vars

(***************************************************************************)
(* Start-up: the orchestrator is constructed from a configuration, started *)
(* and stopped; in individual mode the processors are created on demand.   *)
(* A processor is shown with the settings it was constructed with.         *)
(***************************************************************************)
\* stride_seconds of the configuration: 5 s, 25 s, 30 s and 35 s
StrideConfigs == {stride, buffer_trimming, WHISPER_MAX_AUDIO, WHISPER_MAX_AUDIO + stride}

\* The speech_processor section of a configuration file (main.py:100, 416-426)
Configs ==
    [stride_seconds : StrideConfigs,
     silence_timeout_seconds : {silence_timeout, 2 * silence_timeout},
     pre_speech_buffer_seconds : {0, max_pre_speech_samples},
     history_size : {1, DefaultHistorySize}]

\* speech_processor.py:130-170  SpeechProcessor.__init__ with its settings
ConfiguredSpeechProcessor(speaker_id, sp_config) ==
    SpeechProcessor(speaker_id) @@
        [stride_sec |-> sp_config.stride_seconds,
         silence_timeout_sec |-> sp_config.silence_timeout_seconds,
         pre_speech_buffer_sec |-> sp_config.pre_speech_buffer_seconds,
         buffer_trimming_sec |-> WHISPER_MAX_AUDIO - sp_config.stride_seconds]

\* main.py:30-47, 98-127  RTMSTranscriptionSystem(config): in mixed mode the
\* one processor is created at once
StartupInit ==
    /\ config \in Configs
    /\ is_running = FALSE
    /\ per_speaker_processing \in BOOLEAN
    /\ packet_samples = 0
    /\ clock = 0
    /\ speech_processors = IF per_speaker_processing THEN <<>>
                           ELSE [k \in {MIXED} |-> ConfiguredSpeechProcessor(None, config)]
    /\ sp_order = IF per_speaker_processing THEN <<>> ELSE <<MIXED>>
    /\ shared_context = NewSharedContext(config.history_size)
    /\ transcriptions = <<>>
    /\ asr_tasks = {}
    /\ asr_calls = 0
    /\ n_packets = 0
    /\ stop_pos = 0
    /\ HypIdle
    /\ FramerIdle
    /\ SegmentsIdle
    /\ ContextIdle

\* main.py:189-204  start() sets is_running and goes on to connect and join
Start ==
    /\ ~is_running
    /\ stop_pos = 0
    /\ is_running' = TRUE
    /\ UNCHANGED <<config, hypVars, per_speaker_processing, frVars, sysVars, ctxVars,
                   segVars>>

\* main.py:162-187  _get_speech_processor for the packet of a participant
GetSpeechProcessor ==
    /\ is_running
    /\ \E participant \in Participants \cup {None} :
          LET key == ProcessorKey(participant)
          IN /\ key \notin DOMAIN speech_processors
             /\ speech_processors' =
                    Put(speech_processors, key, ConfiguredSpeechProcessor(key, config))
             /\ sp_order' = Append(sp_order, key)
    /\ UNCHANGED <<packet_samples, clock, shared_context, transcriptions, asr_tasks,
                   asr_calls, n_packets, stop_pos>>
    /\ UNCHANGED <<hypVars, per_speaker_processing, frVars, ctxVars, segVars, startVars>>

StartupNext == Start \/ GetSpeechProcessor \/ Stop

SpecStartup == StartupInit /\ [][StartupNext]_vars

(***************************************************************************)
(* One SpeechProcessor (mixed mode) followed over more packets, with a      *)
(* recognizer that answers before the next packet is handled: half-second  *)
(* packets that fill the pre-roll, 15 s packets that reach the 30 s cap,   *)
(* and silences below, at and above silence_timeout.                       *)
(***************************************************************************)
MaxProcPackets == 5

ProcPacketConfigs == {8000, 240000}

ProcDelays == {0, silence_timeout, stride}

\* What the recognizer answers here: nothing, "a", "A. b"
ProcResponses ==
    {<<>>,
     <<Seg(0, <<Wd(1600, 3200, <<"a">>)>>)>>,
     <<Seg(0, <<Wd(1600, 3200, <<"A", ".">>), Wd(3200, 4000, <<"b">>)>>)>>}

\* main.py:100-121, 203-204  the orchestrator after construction and start,
\* mixed mode
ProcInit ==
    /\ per_speaker_processing = FALSE
    /\ packet_samples \in ProcPacketConfigs
    /\ clock = StartTime
    /\ speech_processors = [k \in {MIXED} |-> SpeechProcessor(None)]
    /\ sp_order = <<MIXED>>
    /\ shared_context = SharedConversationContext
    /\ transcriptions = <<>>
    /\ asr_tasks = {}
    /\ asr_calls = 0
    /\ n_packets = 0
    /\ stop_pos = 0
    /\ config = DefaultConfig
    /\ is_running = TRUE
    /\ HypIdle
    /\ FramerIdle
    /\ SegmentsIdle
    /\ ContextIdle

\* a packet of the mixed stream, handled once the callbacks before it are done
OnMixedPacketReady == asr_tasks = {} /\ VadPacketReady(MaxProcPackets, ProcDelays)

\* the recognizer answers a request of the mixed stream
MixedAsrReturn == AsrAnswers(ProcResponses)

\* the recognizer answers the request of stop()
MixedFlushReturn == FlushAnswers(ProcResponses)

ProcNext == OnMixedPacketReady \/ MixedAsrReturn \/ Stop \/ MixedFlushReturn

SpecProc == ProcInit /\ [][ProcNext]_vars

(***************************************************************************)
(* Pre-roll: one SpeechProcessor (mixed mode) constructed with a           *)
(* pre_speech_buffer_seconds of 0 s, 0.5 s or 1 s and the other settings   *)
(* at their defaults, fed half-second packets; the recognizer answers      *)
(* before the next packet is handled.                                      *)
(***************************************************************************)
MaxPreRollPackets == 5

\* samples of a half-second packet
PreRollPacket == 8000

\* time between two packets' timestamps: half a second and one second
PreRollDelays == {PreRollPacket, silence_timeout}

\* pre_speech_buffer_seconds of the configuration
PreRollConfigs ==
    {[DefaultConfig EXCEPT !.pre_speech_buffer_seconds = pre] :
        pre \in {0, PreRollPacket, max_pre_speech_samples}}

\* speech_processor.py:172-215  on_vad_result of a processor constructed with
\* its own pre_speech_buffer_sec, up to its return or to the await
configured_on_vad_result(sp, ctx, is_speech, samples, timestamp) ==
    IF is_speech /\ ~sp.in_speech
    THEN LET s1 == [sp EXCEPT !.last_speech_time = timestamp]
             s2 == configured_on_speech_start(s1, timestamp)
             s3 == [s2 EXCEPT !.audio_buffer = @ + samples]
         IN IF s3.last_asr_time # NoTime /\ timestamp - s3.last_asr_time >= stride
            THEN [sp |-> s3, request |-> process_asr_begin(s3, ctx, timestamp, FALSE)]
            ELSE [sp |-> s3, request |-> [awaits |-> FALSE]]
    ELSE on_vad_result(sp, ctx, is_speech, samples, timestamp)

\* main.py:30-47, 98-127, 203-204  the orchestrator after construction from
\* the configuration and start, mixed mode
PreRollInit ==
    /\ config \in PreRollConfigs
    /\ is_running = TRUE
    /\ per_speaker_processing = FALSE
    /\ packet_samples = PreRollPacket
    /\ clock = StartTime
    /\ speech_processors = [k \in {MIXED} |-> ConfiguredSpeechProcessor(None, config)]
    /\ sp_order = <<MIXED>>
    /\ shared_context = NewSharedContext(config.history_size)
    /\ transcriptions = <<>>
    /\ asr_tasks = {}
    /\ asr_calls = 0
    /\ n_packets = 0
    /\ stop_pos = 0
    /\ HypIdle
    /\ FramerIdle
    /\ SegmentsIdle
    /\ ContextIdle

\* main.py:289-320 up to the await inside processor.on_vad_result, or to the
\* end: a packet of the mixed stream, handled once the callbacks before it
\* are done
OnConfiguredPacketReady ==
    /\ stop_pos = 0
    /\ n_packets < MaxPreRollPackets
    /\ asr_tasks = {}
    /\ \E is_speech \in BOOLEAN, dt \in PreRollDelays :
        LET timestamp == clock + dt
            r == configured_on_vad_result(speech_processors[MIXED], shared_context,
                                          is_speech, packet_samples, timestamp)
        IN /\ clock' = timestamp
           /\ speech_processors' = [speech_processors EXCEPT ![MIXED] = r.sp]
           /\ IF r.request.awaits
              THEN /\ asr_tasks' = {[id |-> asr_calls + 1, key |-> MIXED, kind |-> "vad",
                                     speaker_id |-> None, timestamp |-> timestamp,
                                     request |-> r.request]}
                   /\ asr_calls' = asr_calls + 1
              ELSE UNCHANGED <<asr_tasks, asr_calls>>
           /\ n_packets' = n_packets + 1
    /\ UNCHANGED <<packet_samples, sp_order, shared_context, transcriptions, stop_pos>>
    /\ UNCHANGED <<hypVars, per_speaker_processing, frVars, ctxVars, segVars, startVars>>

PreRollNext == OnConfiguredPacketReady \/ MixedAsrReturn

SpecPreRoll == PreRollInit /\ [][PreRollNext]_vars

(***************************************************************************)
(* One utterance in 0.1 s packets: a fresh SpeechProcessor (mixed mode) is *)
(* fed speech packets only, each stamped one or two packet durations after *)
(* the one before, until the stride fires; stop() may end the meeting at   *)
(* any packet.                                                             *)
(***************************************************************************)
MaxStridePackets == 52

\* samples of a 0.1 s packet
StridePacket == 1600

\* time between two packets' timestamps: the packets arrive as they are
\* spoken, or at half that pace
StrideDelays == {StridePacket, 2 * StridePacket}

\* main.py:100-121, 203-204  the orchestrator after construction and start,
\* mixed mode, with 0.1 s VAD packets
StrideInit ==
    /\ per_speaker_processing = FALSE
    /\ packet_samples = StridePacket
    /\ clock = StartTime
    /\ speech_processors = [k \in {MIXED} |-> SpeechProcessor(None)]
    /\ sp_order = <<MIXED>>
    /\ shared_context = SharedConversationContext
    /\ transcriptions = <<>>
    /\ asr_tasks = {}
    /\ asr_calls = 0
    /\ n_packets = 0
    /\ stop_pos = 0
    /\ config = DefaultConfig
    /\ is_running = TRUE
    /\ HypIdle
    /\ FramerIdle
    /\ SegmentsIdle
    /\ ContextIdle

\* a speech packet of the utterance, handled once the callbacks before it
\* are done
OnSpeechPacketReady ==
    asr_tasks = {} /\ VadPackets(MaxStridePackets, StrideDelays, {TRUE})

StrideNext == OnSpeechPacketReady \/ MixedAsrReturn \/ Stop \/ MixedFlushReturn

SpecStride == StrideInit /\ [][StrideNext]_vars

(***************************************************************************)
(* One SpeechProcessor (mixed mode) fed 6 s packets one stride apart, so   *)
(* that four recognitions happen before the audio passes 25 s and the trim *)
(* runs on what they committed.  The recognizer answers before the next    *)
(* packet is handled.                                                      *)
(***************************************************************************)
MaxTrimPackets == 5

\* samples of a 6 s packet
TrimPacket == 96000

TrimDelays == {stride}

\* What the recognizer answers here: nothing, "a" at 0.1 s..0.2 s, and a
\* short "b" at 0.15 s..0.1875 s
TrimResponses ==
    {<<>>,
     <<Seg(0, <<Wd(1600, 3200, <<"a">>)>>)>>,
     <<Seg(0, <<Wd(2400, 3000, <<"b">>)>>)>>}

\* main.py:100-121, 203-204  the orchestrator after construction and start,
\* mixed mode, with 6 s VAD packets
TrimInit ==
    /\ per_speaker_processing = FALSE
    /\ packet_samples = TrimPacket
    /\ clock = StartTime
    /\ speech_processors = [k \in {MIXED} |-> SpeechProcessor(None)]
    /\ sp_order = <<MIXED>>
    /\ shared_context = SharedConversationContext
    /\ transcriptions = <<>>
    /\ asr_tasks = {}
    /\ asr_calls = 0
    /\ n_packets = 0
    /\ stop_pos = 0
    /\ config = DefaultConfig
    /\ is_running = TRUE
    /\ HypIdle
    /\ FramerIdle
    /\ SegmentsIdle
    /\ ContextIdle

\* a 6 s packet, handled once the callbacks before it are done
OnLongPacketReady == asr_tasks = {} /\ VadPacketReady(MaxTrimPackets, TrimDelays)

\* the recognizer answers a request of the stream
TrimAsrReturn == AsrAnswers(TrimResponses)

\* the recognizer answers the request of stop()
TrimFlushReturn == FlushAnswers(TrimResponses)

TrimNext == OnLongPacketReady \/ TrimAsrReturn \/ Stop \/ TrimFlushReturn

SpecTrim == TrimInit /\ [][TrimNext]_vars

(***************************************************************************)
(* The same processor when stop() is called again after it has finished:   *)
(* stop() tests nothing before it flushes the processors (main.py:365-373) *)
(* and start() calls it once more when its loop ends (main.py:237-238).    *)
(***************************************************************************)
MaxFlushCalls == 6

\* main.py:365-373  a further stop() up to the first await of a recognizer
StopAgain ==
    /\ ~is_running
    /\ stop_pos > Len(sp_order)
    /\ asr_tasks = {}
    /\ asr_calls < MaxFlushCalls
    /\ is_running' = FALSE
    /\ UNCHANGED <<shared_context, speech_processors>>
    /\ StopLoop(1, speech_processors)
    /\ UNCHANGED <<packet_samples, clock, sp_order, transcriptions, n_packets>>
    /\ UNCHANGED <<vad_buffers, fr_input, fr_packets, fr_tasks, fr_calls>>
    /\ UNCHANGED <<hypVars, per_speaker_processing, ctxVars, segVars, config>>

FlushNext == OnLongPacketReady \/ TrimAsrReturn \/ Stop \/ TrimFlushReturn \/ StopAgain

SpecFlush == TrimInit /\ [][FlushNext]_vars

(***************************************************************************)
(* A speech that ends.  The mixed stream delivers a few packets of speech  *)
(* or silence and from then on silence only; packets are handled as they   *)
(* arrive, also while the recognizer has not answered yet                  *)
(* (rtms_client.py:262-274 starts one task per frame).  Timestamps advance  *)
(* by half a second or by a stride.  Fairness: the packets of silence keep  *)
(* arriving, and the recognizer answers every request.                      *)
(***************************************************************************)
MaxSpeechPackets == 2

MaxSilencePackets == 3

SilencePacket == 80000

SilenceDelays == {8000, stride}

\* main.py:100-121, 203-204  the orchestrator after construction and start,
\* mixed mode
SilenceInit ==
    /\ per_speaker_processing = FALSE
    /\ packet_samples = SilencePacket
    /\ clock = StartTime
    /\ speech_processors = [k \in {MIXED} |-> SpeechProcessor(None)]
    /\ sp_order = <<MIXED>>
    /\ shared_context = SharedConversationContext
    /\ transcriptions = <<>>
    /\ asr_tasks = {}
    /\ asr_calls = 0
    /\ n_packets = 0
    /\ stop_pos = 0
    /\ config = DefaultConfig
    /\ is_running = TRUE
    /\ HypIdle
    /\ FramerIdle
    /\ SegmentsIdle
    /\ ContextIdle

\* the packets received so far may have held speech
OnEarlyPacketReady == VadPacketReady(MaxSpeechPackets, SilenceDelays)

\* from this point on the stream is silent
OnlySilenceFromNow == n_packets >= MaxSpeechPackets

\* a packet of silence
OnSilencePacketReady ==
    /\ OnlySilenceFromNow
    /\ VadPackets(MaxSpeechPackets + MaxSilencePackets, SilenceDelays, {FALSE})

\* What the recognizer answers here: nothing, or "a"
SilenceResponses ==
    {<<>>,
     <<Seg(0, <<Wd(1600, 3200, <<"a">>)>>)>>}

\* the recognizer answers a request of the stream
SilenceAsrReturn == AsrAnswers(SilenceResponses)

SilenceNext == OnEarlyPacketReady \/ OnSilencePacketReady \/ SilenceAsrReturn

SpecSilence ==
    /\ SilenceInit
    /\ [][SilenceNext]_vars
    /\ WF_vars(OnSilencePacketReady)
    /\ WF_vars(SilenceAsrReturn)

(***************************************************************************)
(* HypothesisBuffer driven the way _process_asr drives it: insert directly *)
(* followed by flush (speech_processor.py:321-324), the recognizer being   *)
(* free to repeat its previous response.                                   *)
(***************************************************************************)
MaxPairs == 4

\* Responses repeated by the recognizer: nothing, "a", "a b", and two short
\* "a" that both start less than 0.1 s before the second one ends
PairResponses ==
    {<<>>,
     <<Wd(1600, 3200, <<"a">>)>>,
     <<Wd(1600, 3200, <<"a">>), Wd(3200, 4000, <<"b">>)>>,
     <<Wd(3000, 3200, <<"a">>), Wd(3200, 4000, <<"a">>)>>}

\* speech_processor.py:321-324  insert(words, offset) then flush()
HypInsertFlush ==
    /\ hb_n < MaxPairs
    /\ \E ws \in PairResponses, off \in Offsets :
          LET r == flush(insert(hb, ws, off))
          IN /\ hb' = r.h
             /\ hb_call' = [op |-> "insert+flush", words |-> ws, offset |-> off,
                            ret |-> r.commit,
                            repeated |-> /\ hb_call # NoCall
                                         /\ hb_call.words = ws
                                         /\ hb_call.offset = off]
             /\ hb_out' = hb_out \o r.commit
    /\ hb_n' = hb_n + 1
    /\ UNCHANGED <<per_speaker_processing, frVars, sysVars, ctxVars, segVars, startVars>>

SpecReinsert == HypInit /\ [][HypInsertFlush]_vars

(***************************************************************************)
(* SharedConversationContext driven directly by add_committed_words, for   *)
(* several configured history sizes.                                       *)
(***************************************************************************)
MaxContextCalls == 3

\* history_size of the configuration: none, one, two, the default
HistorySizes == {0, 1, 2, DefaultHistorySize}

\* Word lists a speaker commits in one call: one to three sentences, "Ab."
\* and "a.b." that do not end a sentence for the pattern, and a text of
\* white space only
ContextWordLists ==
    {<<<<1600, 3200, <<"a">>>>>>,
     <<<<1600, 3200, <<"A", ".">>>>, <<3200, 4000, <<"a">>>>>>,
     <<<<800, 1600, <<"b", "?">>>>, <<1600, 3200, <<"A", ".">>>>,
       <<3200, 4000, <<"a">>>>>>,
     <<<<1600, 3200, <<"A", "b", ".">>>>, <<3200, 4000, <<"a">>>>>>,
     <<<<1600, 3200, <<"a", ".", "b", ".">>>>, <<3200, 4000, <<"a">>>>>>,
     <<<<1600, 3200, <<" ">>>>>>}

\* speech_processor.py:42-53  construction with a configured history_size
ContextInit ==
    /\ shared_context \in {NewSharedContext(n) : n \in HistorySizes}
    /\ ctx_calls = 0
    /\ ctx_last = <<>>
    /\ per_speaker_processing = FALSE
    /\ packet_samples = 0
    /\ clock = 0
    /\ speech_processors = <<>>
    /\ sp_order = <<>>
    /\ transcriptions = <<>>
    /\ asr_tasks = {}
    /\ asr_calls = 0
    /\ n_packets = 0
    /\ stop_pos = 0
    /\ HypIdle
    /\ FramerIdle
    /\ SegmentsIdle
    /\ StartupIdle

\* speech_processor.py:55-95  one call of add_committed_words
AddCommittedWords ==
    /\ ctx_calls < MaxContextCalls
    /\ \E words \in ContextWordLists, speaker_id \in Participants :
          /\ shared_context' = add_committed_words(shared_context, words, speaker_id)
          /\ ctx_last' = words
    /\ ctx_calls' = ctx_calls + 1
    /\ UNCHANGED <<packet_samples, clock, speech_processors, sp_order, transcriptions,
                   asr_tasks, asr_calls, n_packets, stop_pos>>
    /\ UNCHANGED <<hypVars, per_speaker_processing, frVars, segVars, startVars>>

SpecContext == ContextInit /\ [][AddCommittedWords]_vars

(***************************************************************************)
(* Properties of HypothesisBuffer (checked under SpecHyp)                  *)
(***************************************************************************)
EndsNonDecreasing(ws) ==
    \A i \in 1..(Len(ws) - 1) : ws[i][2] <= ws[i + 1][2]

\* C7: for any sequence of insert, flush and pop_commited calls on one
\* HypothesisBuffer, last_commited_time never decreases and the concatenation
\* of all flush results is non-decreasing in end_sec.
C7_CommitTimesMonotone ==
    /\ [][hb.last_commited_time <= hb'.last_commited_time]_vars
    /\ [](EndsNonDecreasing(hb_out))

\* Length of the longest common prefix of two word lists, compared by
\* normalised text
LcpLen(buffer, new) ==
    CHOOSE k \in 0..Min(Len(buffer), Len(new)) :
        /\ \A i \in 1..k : normalize_word(new[i][3]) = normalize_word(buffer[i][3])
        /\ \/ k = Min(Len(buffer), Len(new))
           \/ normalize_word(new[k + 1][3]) # normalize_word(buffer[k + 1][3])

\* C8: flush() commits exactly the longest common prefix (by normalised text)
\* of buffer and new, with times and text taken from new; afterwards buffer is
\* the uncommitted rest of new, new is empty, commited_in_buffer is extended by
\* the commits, and last_commited_time is the end of the last committed word
\* (unchanged when nothing is committed).
C8_FlushCommitsLcp ==
    [][hb_call'.op = "flush" =>
        LET k == LcpLen(hb.buffer, hb.new)
        IN /\ hb_call'.ret = Take(hb.new, k)
           /\ hb'.buffer = Drop(hb.new, k)
           /\ hb'.new = <<>>
           /\ hb'.commited_in_buffer = hb.commited_in_buffer \o Take(hb.new, k)
           /\ hb'.last_commited_time =
                 IF k = 0 THEN hb.last_commited_time ELSE hb.new[k][2]]_vars

\* a flush that committed a word whose text differs from the buffered one
\* only by case and punctuation, and left an uncommitted rest in buffer
C8_Witness ==
    /\ hb_call.op = "flush"
    /\ \E i \in 1..Len(hb_call.ret) : hb_call.ret[i][3] = <<"A", ".">>
    /\ hb.buffer # <<>>

\* The input of the last insert, shifted, without the words that start at or
\* before last_commited_time - 0.1 s (insert changes neither
\* last_commited_time nor commited_in_buffer)
ShiftedKept ==
    LET ws == hb_call.words
        shifted == [i \in 1..Len(ws) |->
                      <<ws[i].start + hb_call.offset, ws[i].end + hb_call.offset, ws[i].text>>]
    IN SelectSeq(shifted, LAMBDA w : ~(w[1] <= hb.last_commited_time - COMMIT_SLACK))

\* Overlap lengths i at which the last i committed words equal the first i
\* kept words after normalisation
OverlapLengths(kept) ==
    LET cib == hb.commited_in_buffer
    IN {i \in 1..Min(MAX_NGRAM, Min(Len(cib), Len(kept))) :
          \A j \in 1..i :
             normalize_word(cib[Len(cib) - i + j][3]) = normalize_word(kept[j][3])}

DedupApplies(kept) ==
    /\ kept # <<>>
    /\ Abs(kept[1][1] - hb.last_commited_time) < DEDUP_WINDOW
    /\ hb.commited_in_buffer # <<>>

SetMax(S) == CHOOSE x \in S : \A y \in S : y <= x

SetMin(S) == CHOOSE x \in S : \A y \in S : x <= y

C10_InsertKeepsRecentWords ==
    hb_call.op = "insert" =>
        /\ \A i \in 1..Len(hb.new) : hb.new[i][1] > hb.last_commited_time - COMMIT_SLACK
        /\ \E k \in 0..Min(MAX_NGRAM, Len(ShiftedKept)) :
              /\ hb.new = Drop(ShiftedKept, k)
              /\ k > 0 => (DedupApplies(ShiftedKept) /\ k \in OverlapLengths(ShiftedKept))

\* an insert with a non-zero offset that dropped a word starting exactly at
\* last_commited_time - 0.1 s and kept a later one
C10_Witness ==
    /\ hb_call.op = "insert"
    /\ hb_call.offset # 0
    /\ \E i \in 1..Len(hb_call.words) :
          hb_call.words[i].start + hb_call.offset = hb.last_commited_time - COMMIT_SLACK
    /\ hb.new # <<>>

(***************************************************************************)
(* Properties of the VAD framer (checked under SpecFramer)                 *)
(***************************************************************************)
\* C5: every VAD packet handed to the VAD callback has exactly
\* vad_packet_samples samples, for frames of any length (including empty)
\* and also at flush: a remainder shorter than one packet is never forwarded.
C5_PacketsHaveExactSize ==
    \A i \in 1..Len(fr_packets) : Len(fr_packets[i].data) = vad_packet_samples

\* flush has run while a remainder shorter than a packet was pending, after
\* an empty frame and after a frame that completed a packet
C5_Witness ==
    /\ fr_flushed
    /\ fr_packets # <<>>
    /\ \E k \in DOMAIN vad_buffers :
          Len(vad_buffers[k]) > 0 /\ Len(vad_buffers[k]) < vad_packet_samples
    /\ \E k \in DOMAIN fr_input, c \in 1..fr_calls :
          \A i \in 1..Len(fr_input[k]) : fr_input[k][i][1] # c

RECURSIVE Flatten(_)
Flatten(ss) == IF ss = <<>> THEN <<>> ELSE Head(ss) \o Flatten(Tail(ss))

\* the data of the packets emitted for stream key, in emission order
EmittedOn(key) ==
    LET chunks == SelectSeq(fr_packets, LAMBDA c : c.speaker_id = ChunkSpeaker(key))
    IN Flatten([i \in 1..Len(chunks) |-> chunks[i].data])

\* C6: for add_audio calls totalling S samples on one stream, the emitted
\* packets carry floor(S / vad_packet_samples) * vad_packet_samples samples in
\* total, they are the input samples in input order, and the pending buffer
\* holds the remaining S mod vad_packet_samples samples (stated at the points
\* where no add_audio call is suspended; the order and no-loss part always).
C6_PacketsAreTheInputInOrder ==
    \A key \in DOMAIN fr_input :
        LET S == Len(fr_input[key])
        IN /\ EmittedOn(key) \o vad_buffers[key] = fr_input[key]
           /\ fr_tasks = {} =>
                 /\ Len(EmittedOn(key)) = (S \div vad_packet_samples) * vad_packet_samples
                 /\ Len(vad_buffers[key]) = S % vad_packet_samples

\* every call has returned, some stream got two packets out of several
\* frames and keeps a non-empty remainder
C6_Witness ==
    /\ fr_tasks = {}
    /\ \E key \in DOMAIN fr_input :
          /\ Len(EmittedOn(key)) >= 2 * vad_packet_samples
          /\ vad_buffers[key] # <<>>
          /\ \E i, j \in 1..Len(fr_input[key]) : fr_input[key][i][1] # fr_input[key][j][1]

(***************************************************************************)
(* Properties of repeated responses (checked under SpecReinsert)           *)
(***************************************************************************)
\* C11: an insert followed by flush that repeats the response (same words,
\* same offset) of the insert and flush just before it commits nothing.
C11_ReinsertCommitsNothing ==
    hb_call # NoCall /\ hb_call.repeated => hb_call.ret = <<>>

(***************************************************************************)
(* Properties of one SpeechProcessor (checked under SpecProc)              *)
(***************************************************************************)
\* the requests sent by the step
NewTasks == asr_tasks' \ asr_tasks

\* the step handles one VAD packet
PacketStep == n_packets' = n_packets + 1

\* C12: a SpeechProcessor starts with in_speech false; in_speech becomes true
\* only in a step handling a speech packet, which runs _on_speech_start; it
\* becomes false only in a step handling a silence packet whose timestamp is
\* at least silence_timeout after last_speech_time, which sends the final
\* recognition; a silence packet at exactly silence_timeout does end the
\* speech; no other step changes in_speech.
C12_InSpeechTransitions ==
    /\ \A k \in DOMAIN speech_processors : ~speech_processors[k].in_speech
    /\ [][\A k \in DOMAIN speech_processors :
            LET sp == speech_processors[k]
                sp1 == speech_processors'[k]
                silence == PacketStep /\ sp1.last_speech_time = sp.last_speech_time
                                      /\ sp1.audio_buffer = sp.audio_buffer
            IN /\ (~sp.in_speech /\ sp1.in_speech) =>
                     /\ PacketStep
                     /\ sp1.last_speech_time = clock'
                     /\ sp1.last_asr_time = clock'
                     /\ sp1.audio_buffer >= packet_samples
                     /\ sp1.pre_speech_buffer = <<>>
               /\ (sp.in_speech /\ ~sp1.in_speech) =>
                     /\ silence
                     /\ clock' - sp.last_speech_time >= silence_timeout
                     /\ \E t \in NewTasks : /\ t.key = k
                                            /\ t.request.is_last_chunk
                                            /\ t.request.timestamp = clock'
               /\ (sp.in_speech /\ silence
                     /\ clock' - sp.last_speech_time >= silence_timeout) =>
                     ~sp1.in_speech]_vars

\* a speech has started and has been ended by a silence packet exactly
\* silence_timeout after the last speech packet, the final recognition being
\* on its way
C12_Witness ==
    \E t \in asr_tasks :
        LET sp == speech_processors[t.key]
        IN /\ t.kind = "vad"
           /\ t.request.is_last_chunk
           /\ ~sp.in_speech
           /\ sp.last_speech_time # NoTime
           /\ t.request.timestamp - sp.last_speech_time = silence_timeout

\* C14: over any run of a SpeechProcessor, buffer_time_offset never
\* decreases.
C14_OffsetNeverDecreases ==
    [][\A k \in DOMAIN speech_processors :
          speech_processors[k].buffer_time_offset
              <= speech_processors'[k].buffer_time_offset]_vars

\* C15: in every reachable state the pre-roll buffer of a speaker holds at
\* most pre_speech_buffer_sec * SAMPLING_RATE samples in total.
C15_PreRollBounded ==
    \A k \in DOMAIN speech_processors :
        Sum(speech_processors[k].pre_speech_buffer) <= max_pre_speech_samples

SinkSpeakers == Participants \cup {None}

\* the sink entries of one speaker, in the order they were added
SinkOf(list, speaker_id) == SelectSeq(list, LAMBDA e : e.speaker_id = speaker_id)

\* C1: for each speaker, the sequence of words forwarded to the sink only ever
\* grows by appending: every step leaves the speaker's earlier entries in
\* place, unchanged, as a prefix of the new sequence.
C1_SinkGrowsByAppending ==
    [][\A s \in SinkSpeakers :
          IsPrefix(SinkOf(transcriptions, s), SinkOf(transcriptions', s))]_vars

\* stop() has flushed every processor, a speaker has words in the sink from
\* two different calls, and that speaker's processor has trimmed its audio at
\* a committed word
C1_Witness ==
    /\ stop_pos > Len(sp_order)
    /\ asr_tasks = {}
    /\ \E k \in DOMAIN speech_processors :
          LET sp == speech_processors[k]
              sink == SinkOf(transcriptions, sp.speaker_id)
          IN /\ Len(sink) >= 2
             /\ sink[1].timestamp # sink[Len(sink)].timestamp
             /\ \E i \in 1..Len(sp.committed_words) :
                   sp.committed_words[i][2] = sp.buffer_time_offset

\* C2: within one speaker, the words returned by successive on_vad_result and
\* flush calls, in the order they reach the sink, have strictly increasing
\* end times.
C2_EndsStrictlyIncreasing ==
    \A s \in SinkSpeakers :
        LET sink == SinkOf(transcriptions, s)
        IN \A i \in 1..(Len(sink) - 1) : sink[i].end_time < sink[i + 1].end_time

\* C3: for one speaker, at most one _process_asr awaits the recognizer at any
\* time.
C3_OneRequestInFlight ==
    \A k \in DOMAIN speech_processors :
        Cardinality({t \in asr_tasks : t.key = k}) <= 1

\* C4: whenever a _process_asr call returns, the audio buffer of its
\* processor holds at most 30 s of samples.
C4_AudioAtMostThirtySeconds ==
    [][\A t \in asr_tasks :
          t \notin asr_tasks' =>
              speech_processors'[t.key].audio_buffer <= WHISPER_MAX_AUDIO]_vars

\* C13: two non-final recognizer calls for the same speaker are triggered by
\* packets whose timestamps are at least stride apart (stated for the calls
\* that are awaiting their answer at the same time).
C13_CallsAtLeastStrideApart ==
    \A t1, t2 \in asr_tasks :
        (/\ t1 # t2
         /\ t1.key = t2.key
         /\ ~t1.request.is_last_chunk
         /\ ~t2.request.is_last_chunk)
        => Abs(t1.request.timestamp - t2.request.timestamp) >= stride

\* the words given to add_committed_words so far, in the order they were
\* given: the sink receives the same words in the same order
InsertedWords ==
    [i \in 1..Len(transcriptions) |->
        <<transcriptions[i].start_time, transcriptions[i].end_time,
          transcriptions[i].text, transcriptions[i].speaker_id>>]

WithStart(ws, start) == SelectSeq(ws, LAMBDA w : w[1] = start)

\* C16: after every add_committed_words call, whatever the interleaving of
\* the speakers' commits, all_committed_words holds the words added so far
\* sorted by start, non-decreasing, the words of equal start in the order
\* they were added.
C16_SharedWordsSorted ==
    LET all == shared_context.all_committed_words
    IN /\ Len(all) = Len(InsertedWords)
       /\ \A i \in 1..(Len(all) - 1) : all[i][1] <= all[i + 1][1]
       /\ \A i \in 1..Len(InsertedWords) :
             WithStart(all, InsertedWords[i][1])
                 = WithStart(InsertedWords, InsertedWords[i][1])

\* two speakers committed words of equal start, and a word was added after a
\* word that starts later
C16_Witness ==
    LET all == shared_context.all_committed_words
    IN /\ all # InsertedWords
       /\ \E i, j \in 1..Len(all) : /\ i < j
                                    /\ all[i][1] = all[j][1]
                                    /\ all[i][4] # all[j][4]

\* the texts of the words of ws that end at or before before_time, each
\* followed by one space
RECURSIVE SpacedTexts(_, _)
SpacedTexts(ws, before_time) ==
    IF ws = <<>> THEN <<>>
    ELSE (IF Head(ws)[2] <= before_time THEN Head(ws)[3] \o <<" ">> ELSE <<>>)
         \o SpacedTexts(Tail(ws), before_time)

\* C18: the prompt of every recognition request is the single-space join, in
\* all_committed_words order, of the text of exactly those words of the
\* shared context, whoever committed them, that end at or before the
\* requesting processor's buffer_time_offset when the request is sent.
C18_PromptIsSharedHistory ==
    [][\A t \in NewTasks :
          LET spaced == SpacedTexts(shared_context'.all_committed_words,
                                    speech_processors'[t.key].buffer_time_offset)
          IN t.request.prompt = Take(spaced, Len(spaced) - 1)]_vars

\* a request of speaker B is awaiting with a non-empty prompt while every word
\* of the shared context was committed by speaker A
C18_Witness ==
    \E t \in asr_tasks :
        /\ t.key = "B"
        /\ t.request.prompt # <<>>
        /\ \A w \in {shared_context.all_committed_words[i] :
                       i \in 1..Len(shared_context.all_committed_words)} : w[4] = "A"

\* the words the step forwards to the sink
Returned ==
    [i \in 1..(Len(transcriptions') - Len(transcriptions)) |->
        LET e == transcriptions'[Len(transcriptions) + i]
        IN <<e.start_time, e.end_time, e.text>>]

\* C20: when a final recognition returns (after a speech end or in flush),
\* the returned list ends with every word left in hypothesis_buffer.buffer,
\* in order; what precedes is the call's commits, the last of which gives
\* last_commited_time; the whole list is appended to the speaker's
\* committed_words and added to the shared context under its speaker_id.
C20_FinalCallReturnsTail ==
    [][\A t \in asr_tasks :
          (t \notin asr_tasks' /\ t.request.is_last_chunk) =>
              LET sp == speech_processors[t.key]
                  sp1 == speech_processors'[t.key]
                  tail == sp1.hypothesis_buffer.buffer
                  commits == Take(Returned, Len(Returned) - Len(tail))
                  all == shared_context.all_committed_words
                  all1 == shared_context'.all_committed_words
              IN /\ Len(tail) <= Len(Returned)
                 /\ Drop(Returned, Len(Returned) - Len(tail)) = tail
                 /\ sp1.hypothesis_buffer.last_commited_time =
                        IF commits = <<>> THEN sp.hypothesis_buffer.last_commited_time
                        ELSE commits[Len(commits)][2]
                 /\ sp1.committed_words = sp.committed_words \o Returned
                 /\ Len(all1) = Len(all) + Len(Returned)
                 /\ \A i \in 1..Len(Returned) :
                       \E j \in 1..Len(all1) :
                           all1[j] = <<Returned[i][1], Returned[i][2], Returned[i][3],
                                       sp.speaker_id>>]_vars

\* a final recognition has returned a commit followed by a tail word: the
\* sink ends with the word left in the buffer, preceded by a word of the same
\* call that ends at last_commited_time
C20_Witness ==
    /\ asr_tasks = {}
    /\ \E k \in DOMAIN speech_processors :
          LET sp == speech_processors[k]
              n == Len(transcriptions)
          IN /\ Len(sp.hypothesis_buffer.buffer) = 1
             /\ n >= 2
             /\ transcriptions[n].end_time = sp.hypothesis_buffer.buffer[1][2]
             /\ transcriptions[n].text = sp.hypothesis_buffer.buffer[1][3]
             /\ transcriptions[n - 1].timestamp = transcriptions[n].timestamp
             /\ transcriptions[n - 1].end_time = sp.hypothesis_buffer.last_commited_time
             /\ transcriptions[n - 1].end_time < transcriptions[n].end_time

(***************************************************************************)
(* Properties of SharedConversationContext (checked under SpecContext)     *)
(***************************************************************************)
\* C17: after every add_committed_words call recog_sent_history holds at most
\* history_size entries, for every configured history_size and every number
\* of sentences added by the call.
C17_HistoryBounded ==
    Len(shared_context.recog_sent_history) <= shared_context.history_size

\* the positions of sp_order that stop() passes in this step without waiting
\* at them
Passed == {k \in 1..Len(sp_order) : stop_pos < k /\ k < stop_pos'}

Produced(key) ==
    Drop(speech_processors'[key].committed_words,
         Len(speech_processors[key].committed_words))

\* C22: when an on_vad_result call returns, each word it returns is appended
\* to the sink once, in the order returned, under the speaker_id and the
\* timestamp of the packet the call was made for; a step in which no call
\* returns leaves the sink alone, so the sink lists the commits of all
\* speakers in the order they were produced.
C22_ReturnedWordsForwardedInOrder ==
    [][/\ \A t \in asr_tasks :
             (t.kind = "vad" /\ t \notin asr_tasks') =>
                 /\ Len(transcriptions') = Len(transcriptions) + Len(Produced(t.key))
                 /\ Take(transcriptions', Len(transcriptions)) = transcriptions
                 /\ \A i \in 1..Len(Produced(t.key)) :
                       transcriptions'[Len(transcriptions) + i] =
                           [text |-> Produced(t.key)[i][3],
                            speaker_id |-> t.speaker_id,
                            timestamp |-> t.timestamp,
                            start_time |-> Produced(t.key)[i][1],
                            end_time |-> Produced(t.key)[i][2]]
                 /\ \A k \in DOMAIN speech_processors \ {t.key} : Produced(k) = <<>>
       /\ asr_tasks \subseteq asr_tasks' =>
             /\ transcriptions' = transcriptions
             /\ \A k \in DOMAIN speech_processors : Produced(k) = <<>>]_vars

\* one call made for a packet of "A" has returned two words, which are in the
\* sink in the order of their times under "A" and the packet's timestamp,
\* and the sink holds a word of another speaker as well
C22_Witness ==
    \E i \in 1..Len(transcriptions) :
        /\ i + 1 <= Len(transcriptions)
        /\ transcriptions[i].speaker_id = "A"
        /\ transcriptions[i + 1].speaker_id = "A"
        /\ transcriptions[i].timestamp = transcriptions[i + 1].timestamp
        /\ transcriptions[i].timestamp # clock
        /\ transcriptions[i].end_time <= transcriptions[i + 1].start_time
        /\ \E j \in 1..Len(transcriptions) : transcriptions[j].speaker_id \notin {"A", None}

\* the step is the return of the non-final request t with a response that
\* holds no word (an empty response, which is also what a failed call gives)
EmptyAnswered(t) ==
    /\ t.kind = "vad"
    /\ t \notin asr_tasks'
    /\ ~t.request.is_last_chunk
    /\ speech_processors'[t.key] =
           process_asr_end(speech_processors[t.key], shared_context,
                           t.request, <<>>).sp

\* after an answered request: a speech packet of the running speech sends
\* the next request exactly when it comes stride or more after last_asr_time,
\* and the request is over the audio held (its last 30 s)
FiresAfterStride ==
    \A k \in DOMAIN speech_processors :
        LET sp == speech_processors[k]
            sp1 == speech_processors'[k]
        IN (/\ PacketStep
            /\ sp.in_speech
            /\ sp.audio_buffer >= stride
            /\ sp.last_asr_time # NoTime
            /\ sp1.audio_buffer = sp.audio_buffer + packet_samples) =>
               /\ NewTasks # {} <=> clock' - sp.last_asr_time >= stride
               /\ \A t \in NewTasks :
                     /\ ~t.request.is_last_chunk
                     /\ t.request.timestamp = clock'
                     /\ t.request.audio_len = Min(sp1.audio_buffer, WHISPER_MAX_AUDIO)

VadResultStep == seg_calls' = seg_calls + 1 /\ seg_call'.key \in DOMAIN speech_buffers

\* C24: when a speech result brings the speech buffer of its stream to
\* asr_segment_samples or more, the ASR callback gets exactly one more chunk,
\* made of the first asr_segment_samples samples of the buffer (what was
\* buffered, then the new chunk), and the samples behind them stay buffered
\* in order; a speech result that leaves the buffer shorter sends nothing.
C24_SegmentFromFront ==
    [][(VadResultStep /\ seg_call'.is_speech) =>
          LET key == seg_call'.key
              whole == speech_buffers[key].speech_buffer \o seg_call'.data
          IN IF Len(whole) >= asr_segment_samples
             THEN /\ Len(asr_segments') = Len(asr_segments) + 1
                  /\ SubSeq(asr_segments', 1, Len(asr_segments)) = asr_segments
                  /\ asr_segments'[Len(asr_segments')].data =
                         SubSeq(whole, 1, asr_segment_samples)
                  /\ speech_buffers'[key].speech_buffer =
                         SubSeq(whole, asr_segment_samples + 1, Len(whole))
             ELSE /\ asr_segments' = asr_segments
                  /\ speech_buffers'[key].speech_buffer = whole]_vars

\* the last speech result has completed a segment out of the samples of two
\* calls and its own second sample stays buffered
C24_Witness ==
    /\ seg_call # NoCall
    /\ seg_call.is_speech
    /\ seg_call.key \in DOMAIN speech_buffers
    /\ speech_buffers[seg_call.key].speech_buffer = <<<<seg_calls, 2>>>>
    /\ asr_segments # <<>>
    /\ LET segment == asr_segments[Len(asr_segments)].data
       IN /\ Len(segment) = asr_segment_samples
          /\ segment[asr_segment_samples] = <<seg_calls, 1>>
          /\ segment[1][1] < seg_calls

\* C25: when the speech of a stream is active and a non-speech result comes
\* silence_timeout_seconds or more after its last speech result, the buffered
\* speech goes to the ASR callback if it holds min_samples or more and no
\* callback is made otherwise; when the call ends (at once, or after the
\* callback has returned) is_speech_active is false and the speech buffer is
\* empty.
C25_SilenceEndsSpeech ==
    [][/\ (VadResultStep /\ ~seg_call'.is_speech) =>
             LET key == seg_call'.key
                 sb == speech_buffers[key]
             IN (sb.is_speech_active
                   /\ seg_clock' - sb.last_speech_time >= silence_timeout_seconds) =>
                    /\ IF Len(sb.speech_buffer) >= min_samples
                       THEN /\ Len(asr_segments') = Len(asr_segments) + 1
                            /\ asr_segments'[Len(asr_segments')].data = sb.speech_buffer
                       ELSE asr_segments' = asr_segments
                    /\ \/ /\ seg_tasks' = seg_tasks
                          /\ ~speech_buffers'[key].is_speech_active
                          /\ speech_buffers'[key].speech_buffer = <<>>
                       \/ /\ Len(sb.speech_buffer) >= min_samples
                          /\ \E task \in seg_tasks' \ seg_tasks : task.key = key
       /\ \A task \in seg_tasks \ seg_tasks' :
             /\ ~speech_buffers'[task.key].is_speech_active
             /\ speech_buffers'[task.key].speech_buffer = <<>>]_vars

\* a non-speech result one silence timeout after the last speech result has
\* ended a speech of exactly min_samples samples: they went to the ASR
\* callback, and the stream is inactive with an empty speech buffer
C25_Witness ==
    /\ seg_call # NoCall
    /\ ~seg_call.is_speech
    /\ seg_call.key \in DOMAIN speech_buffers
    /\ seg_tasks = {}
    /\ LET sb == speech_buffers[seg_call.key]
       IN /\ ~sb.is_speech_active
          /\ sb.speech_buffer = <<>>
          /\ sb.last_speech_time # NoTime
          /\ seg_clock - sb.last_speech_time = silence_timeout_seconds
    /\ asr_segments # <<>>
    /\ Len(asr_segments[Len(asr_segments)].data) = min_samples
    /\ asr_segments[Len(asr_segments)].timestamp = seg_call.timestamp

(***************************************************************************)
(* Properties of the start-up (checked under SpecStartup)                  *)
(***************************************************************************)
\* C26: with a configuration whose stride_seconds is 30 s or more (the trim
\* threshold WHISPER_MAX_AUDIO - stride is then zero or negative) no
\* SpeechProcessor exists and the system is never running.
C26_InvalidConfigRejected ==
    config.stride_seconds >= WHISPER_MAX_AUDIO =>
        /\ speech_processors = <<>>
        /\ ~is_running

(***************************************************************************)
(* Properties of normalize_word (checked under SpecNormalize)              *)
(***************************************************************************)
\* C27: normalising the result of normalize_word once more changes nothing,
\* for every word text.
C27_NormalizeIdempotent ==
    hb_call.op = "normalize_word" => normalize_word(hb_call.ret) = hb_call.ret

(***************************************************************************)
(* C28: 50 consecutive 0.1 s speech packets (5.0 s) fed to a fresh         *)
(* SpeechProcessor with stride_sec = 5.0 produce exactly one recognizer    *)
(* call, and that first recognition commits no word: its words are in      *)
(* hyp.buffer and hyp.new is empty.                                        *)
(***************************************************************************)
\* the 50 packets have been handled (and every recognizer call answered)
\* and stop() has not begun
FiftyPacketsFed ==
    /\ packet_samples = StridePacket
    /\ n_packets = 50
    /\ speech_processors[MIXED].audio_buffer = stride
    /\ asr_tasks = {}
    /\ stop_pos = 0

C28_FiftyPacketsOneCall ==
    FiftyPacketsFed =>
        /\ asr_calls = 1
        /\ speech_processors[MIXED].committed_words = <<>>
        /\ speech_processors[MIXED].hypothesis_buffer.new = <<>>
        /\ transcriptions = <<>>

(***************************************************************************)
(* C29: the audio passed to the recognizer is never longer than 30 s.  A   *)
(* buffer longer than 30 s is sent as its last 30 s, with audio_offset =   *)
(* buffer_time_offset + (chunk_dur - 30 s); a buffer of 30 s or less       *)
(* (exactly 30 s included) is sent whole, with audio_offset =              *)
(* buffer_time_offset.  Stated for every request at the step sending it.   *)
(***************************************************************************)
C29_AtMostThirtySecondsSent ==
    [][\A t \in NewTasks :
          LET sp == speech_processors'[t.key]
              chunk_dur == sp.audio_buffer
          IN /\ t.request.audio_len <= WHISPER_MAX_AUDIO
             /\ IF chunk_dur > WHISPER_MAX_AUDIO
                THEN /\ t.request.audio_len = WHISPER_MAX_AUDIO
                     /\ t.request.audio_offset =
                            sp.buffer_time_offset + (chunk_dur - WHISPER_MAX_AUDIO)
                ELSE /\ t.request.audio_len = chunk_dur
                     /\ t.request.audio_offset = sp.buffer_time_offset]_vars

\* two requests of one processor are awaiting their answers: the first sent
\* when the buffer held exactly 30 s, the second when it held more
C29_Witness ==
    \E k \in DOMAIN speech_processors :
        \E t1, t2 \in asr_tasks :
            LET sp == speech_processors[k]
            IN /\ t1.key = k /\ t2.key = k
               /\ sp.audio_buffer > WHISPER_MAX_AUDIO
               /\ t1.request.audio_len = WHISPER_MAX_AUDIO
               /\ t1.request.audio_offset = sp.buffer_time_offset
               /\ t2.request.audio_len = WHISPER_MAX_AUDIO
               /\ t2.request.audio_offset =
                      sp.buffer_time_offset + (sp.audio_buffer - WHISPER_MAX_AUDIO)

(***************************************************************************)
(* C30: a trim is attempted only when, after the commit step, audio is     *)
(* longer than MAX_AUDIO_SEC - stride_sec.  It then moves                  *)
(* buffer_time_offset to the end of the most recently committed word of    *)
(* this speaker that ends at or before buffer_time_offset + duration/2,    *)
(* provided that end is greater than the current offset, cuts              *)
(* (end - old offset) from the front of audio and removes from             *)
(* hyp.commited_in_buffer exactly the words ending at or before it; in     *)
(* every other case audio, offset and hyp are left as the commit step left *)
(* them.  Stated for every step in which a recognizer call returns.        *)
(***************************************************************************)
\* the words the call committed: all of them, and those of the commit step
\* (the final tail is what hyp.buffer holds when the call returns)
CommittedByCall(t) ==
    Drop(speech_processors'[t.key].committed_words,
         Len(speech_processors[t.key].committed_words))

CommitStepWords(t) ==
    LET tail == IF t.request.is_last_chunk
                THEN Len(speech_processors'[t.key].hypothesis_buffer.buffer) ELSE 0
    IN Take(CommittedByCall(t), Len(CommittedByCall(t)) - tail)

\* positions in ws of the words ending at or before offset + duration/2
BeforeMiddle(ws, offset, duration) ==
    {i \in 1..Len(ws) : 2 * (ws[i][2] - offset) <= duration}

\* the trim the statement describes, on the state the commit step left:
\* the new offset, or NoTime when nothing is to change
TrimTo(t) ==
    LET sp == speech_processors[t.key]
        ws == sp.committed_words \o CommitStepWords(t)
        at == BeforeMiddle(ws, sp.buffer_time_offset, sp.audio_buffer)
    IN IF sp.audio_buffer > WHISPER_MAX_AUDIO - stride /\ at # {}
          /\ ws[SetMax(at)][2] > sp.buffer_time_offset
       THEN ws[SetMax(at)][2]
       ELSE NoTime

C30_TrimAtCommittedWord ==
    [][\A t \in asr_tasks :
          t \notin asr_tasks' =>
              LET sp == speech_processors[t.key]
                  after == speech_processors'[t.key]
                  cib == sp.hypothesis_buffer.commited_in_buffer \o CommitStepWords(t)
                  end == TrimTo(t)
              IN IF end # NoTime
                 THEN /\ after.buffer_time_offset = end
                      /\ after.audio_buffer =
                             sp.audio_buffer - (end - sp.buffer_time_offset)
                      /\ after.hypothesis_buffer.commited_in_buffer =
                             SelectSeq(cib, LAMBDA w : w[2] > end)
                 ELSE /\ after.buffer_time_offset = sp.buffer_time_offset
                      /\ after.audio_buffer = sp.audio_buffer
                      /\ after.hypothesis_buffer.commited_in_buffer = cib]_vars

(***************************************************************************)
(* C31: at speech start with timestamp ts the audio buffer becomes the     *)
(* last min(pre-roll total, pre_speech_buffer_sec * SAMPLE_RATE) pre-roll  *)
(* samples (the first speech packet is appended to them),                  *)
(* buffer_time_offset becomes ts minus the duration of the pre-roll used,  *)
(* the pre-roll is emptied and last_asr_time = ts.                         *)
(***************************************************************************)
\* the step is a speech start of the mixed processor
SpeechStartStep ==
    ~speech_processors[MIXED].in_speech /\ speech_processors'[MIXED].in_speech

C31_SpeechStartUsesCappedPreRoll ==
    [][SpeechStartStep =>
          LET sp == speech_processors[MIXED]
              after == speech_processors'[MIXED]
              used == Min(Sum(sp.pre_speech_buffer), sp.pre_speech_buffer_sec)
          IN /\ after.audio_buffer = used + packet_samples
             /\ after.buffer_time_offset = clock' - used
             /\ after.pre_speech_buffer = <<>>
             /\ after.last_asr_time = clock']_vars

(***************************************************************************)
(* C32: in individual mode exactly one SpeechProcessor exists per distinct *)
(* speaker id seen so far, created on that speaker's first VAD packet and  *)
(* reused for every later packet of that id; in mixed mode every packet    *)
(* goes to the single processor __mixed__ created at start.  (All          *)
(* processors work on the one shared_context of the meeting.)              *)
(***************************************************************************)
\* the processors that exist are those of the speakers heard, each created
\* once and constructed for its speaker; every request awaiting its answer
\* was sent by the processor of its packet's speaker
ProcessorsMatchSpeakers ==
    /\ DOMAIN speech_processors = {sp_order[i] : i \in 1..Len(sp_order)}
    /\ Cardinality(DOMAIN speech_processors) = Len(sp_order)
    /\ IF per_speaker_processing
       THEN /\ DOMAIN speech_processors \subseteq Participants
            /\ \A k \in DOMAIN speech_processors : speech_processors[k].speaker_id = k
            /\ \A t \in asr_tasks : t.kind = "vad" => t.key = t.speaker_id
       ELSE /\ DOMAIN speech_processors = {MIXED}
            /\ \A t \in asr_tasks : t.key = MIXED

\* the step gives one packet to the processor of its speaker: the one that
\* exists already, or else a new one
PacketGoesToItsProcessor ==
    \E k \in (IF per_speaker_processing THEN Participants ELSE {MIXED}),
       is_speech \in BOOLEAN :
        LET fresh == SpeechProcessor(IF per_speaker_processing THEN k ELSE None)
            processor == IF k \in DOMAIN speech_processors
                         THEN speech_processors[k] ELSE fresh
        IN /\ per_speaker_processing \/ k \in DOMAIN speech_processors
           /\ speech_processors' =
                  Put(speech_processors, k,
                      on_vad_result(processor, shared_context, is_speech,
                                    packet_samples, clock').sp)

NewPackets == Drop(fr_packets', Len(fr_packets))

\* what stream key holds of f (nothing before its first frame)
Held(f, key) == IF key \in DOMAIN f THEN f[key] ELSE <<>>

\* the step belongs to an add_audio call of speaker k
AddAudioStepOf(k) ==
    /\ DOMAIN vad_buffers' = DOMAIN vad_buffers \cup {k}
    /\ \A j \in DOMAIN vad_buffers \ {k} :
          /\ vad_buffers'[j] = vad_buffers[j]
          /\ Held(fr_input', j) = Held(fr_input, j)
    /\ \A i \in 1..Len(NewPackets) :
          /\ NewPackets[i].speaker_id = k
          /\ NewPackets[i].timestamp = NewPackets[1].timestamp
          /\ NewPackets[i].timestamp \in 1..fr_calls'
          /\ \A x \in 1..Len(NewPackets[i].data) :
                \E y \in 1..Len(fr_input'[k]) : fr_input'[k][y] = NewPackets[i].data[x]
    /\ Flatten([i \in 1..Len(NewPackets) |-> NewPackets[i].data]) \o vad_buffers'[k]
          = Held(vad_buffers, k)
            \o Drop(Held(fr_input', k), Len(Held(fr_input, k)))

C33_AddAudioTouchesOneSpeaker ==
    [][(per_speaker_processing /\ frVars' # frVars /\ fr_flushed' = fr_flushed)
          => \E k \in Participants : AddAudioStepOf(k)]_vars

\* while samples of B are pending, one add_audio call of A has emitted two
\* packets
C33_Witness ==
    /\ per_speaker_processing
    /\ "B" \in DOMAIN vad_buffers
    /\ vad_buffers["B"] # <<>>
    /\ \E i \in 1..(Len(fr_packets) - 1) :
          /\ fr_packets[i].speaker_id = "A"
          /\ fr_packets[i + 1].speaker_id = "A"
          /\ fr_packets[i].timestamp = fr_packets[i + 1].timestamp
          /\ vad_buffers["B"][1][1] < fr_packets[i].timestamp

(***************************************************************************)
(* C34: while in_speech is true, a silence packet that arrives before      *)
(* silence_timeout_sec has elapsed since last_speech_time changes nothing: *)
(* it is appended neither to audio nor to the pre-roll, hyp,               *)
(* buffer_time_offset, last_speech_time and last_asr_time are unchanged,   *)
(* no recognizer call is made and no word is returned; likewise the        *)
(* silence packet that ends the speech is not added to the pre-roll.       *)
(* Stated for every step handling a packet: before the timeout a processor *)
(* in speech either took a speech packet or is left as it was.             *)
(***************************************************************************)
\* the step gave a speech packet to processor k, which was in speech
SpeechPacketTaken(k) ==
    /\ speech_processors'[k].last_speech_time = clock'
    /\ speech_processors'[k].audio_buffer =
           speech_processors[k].audio_buffer + packet_samples

C34_SilenceInSpeechChangesNothing ==
    [][PacketStep =>
          \A k \in DOMAIN speech_processors :
              LET sp == speech_processors[k]
                  after == speech_processors'[k]
              IN sp.in_speech =>
                    /\ clock' - sp.last_speech_time < silence_timeout =>
                          \/ SpeechPacketTaken(k)
                          \/ /\ after = sp
                             /\ \A t \in NewTasks : t.key # k
                             /\ transcriptions' = transcriptions
                    /\ ~after.in_speech =>
                          /\ after.pre_speech_buffer = sp.pre_speech_buffer
                          /\ after.audio_buffer = sp.audio_buffer]_vars

\* a packet arrived half a second after the last speech packet of a
\* processor that is still in speech and has sent no request
C34_Witness ==
    /\ speech_processors[MIXED].in_speech
    /\ clock - speech_processors[MIXED].last_speech_time = PreRollPacket
    /\ speech_processors[MIXED].pre_speech_buffer = <<>>
    /\ asr_calls = 0

(***************************************************************************)
(* C35: every word returned by a _process_asr call carries text and times  *)
(* taken from that same call's recognizer response (shifted by that call's *)
(* audio_offset); words left uncommitted in hyp.buffer by an earlier       *)
(* response are never emitted themselves, so a call whose response yields  *)
(* no words returns nothing, also when is_last is true, and leaves         *)
(* hyp.buffer empty.  Stated for every step in which a call returns, for   *)
(* every response that step can have received.                             *)
(***************************************************************************)
\* the step can be the return of request t on response segments
AnsweredWith(t, segments) ==
    speech_processors'[t.key] =
        process_asr_end(speech_processors[t.key], shared_context, t.request, segments).sp

C35_ReturnedWordsAreOfTheResponse ==
    [][\A t \in asr_tasks :
          t \notin asr_tasks' =>
              \A segments \in AsrResponses :
                  AnsweredWith(t, segments) =>
                      LET shifted == ShiftWords(ExtractWords(segments),
                                                t.request.audio_offset)
                          ret == CommittedByCall(t)
                      IN /\ \A i \in 1..Len(ret) :
                               \E j \in 1..Len(shifted) : ret[i] = shifted[j]
                         /\ shifted = <<>> =>
                               /\ ret = <<>>
                               /\ speech_processors'[t.key].hypothesis_buffer.buffer
                                      = <<>>]_vars

\* a processor has returned "A." and "b": "A." was committed against the "a"
\* an earlier response had left in hyp.buffer, "b" as the final tail
C35_Witness ==
    \E k \in DOMAIN speech_processors :
        LET sp == speech_processors[k]
        IN /\ Len(sp.committed_words) = 2
           /\ sp.committed_words[1][3] = <<"A", ".">>
           /\ sp.committed_words[2][3] = <<"b">>
           /\ Len(sp.hypothesis_buffer.commited_in_buffer) = 1
           /\ Len(transcriptions) = 2

(***************************************************************************)
(* C36: calling SpeechProcessor.flush() again after it has already run the *)
(* final recognition, with no packet in between, returns no word; so no    *)
(* word is forwarded to the sink twice when the lifecycle-end flush is     *)
(* repeated.                                                               *)
(***************************************************************************)
\* request t was sent by a flush() that follows a final recognition of
\* flush() directly: flush stamps its recognition with the end of the audio
\* (speech_processor.py:400), which is no packet's timestamp here, and the
\* end of the audio is still the same
RepeatedFlush(t) ==
    /\ t.kind = "flush"
    /\ speech_processors[t.key].last_asr_time = t.request.timestamp

C36_RepeatedFlushReturnsNothing ==
    [][\A t \in asr_tasks :
          (t \notin asr_tasks' /\ RepeatedFlush(t)) =>
              /\ CommittedByCall(t) = <<>>
              /\ transcriptions' = transcriptions]_vars

(***************************************************************************)
(* C37: a recognizer response is always inserted into the HypothesisBuffer *)
(* instance, and with the buffer offset, of the utterance whose audio was  *)
(* sent: between the request and the insert of its response no             *)
(* _on_speech_start of the same speaker replaces hyp, audio or             *)
(* buffer_time_offset, also when on_vad_result calls for that speaker run  *)
(* as interleaved tasks that suspend at the recognizer await.              *)
(***************************************************************************)
\* the step runs _on_speech_start of processor k
SpeechStartOf(k) ==
    /\ k \in DOMAIN speech_processors
    /\ ~speech_processors[k].in_speech
    /\ speech_processors'[k].in_speech

C37_NoSpeechStartWhileAwaiting ==
    [][\A t \in asr_tasks : ~SpeechStartOf(t.key)]_vars

(***************************************************************************)
(* C38: when several add_audio calls for the same stream are in progress   *)
(* as interleaved tasks (each may suspend inside the VAD callback), every  *)
(* input sample ends up in exactly one emitted packet or in the pending    *)
(* buffer (none lost, none duplicated), and packets are handed to the      *)
(* callback in stream order.                                               *)
(***************************************************************************)
\* how many times sample x occurs in sequence seq
Occurrences(x, seq) == Cardinality({p \in 1..Len(seq) : seq[p] = x})

\* the position of sample x in the input of stream key
InputIndex(x, key) == CHOOSE y \in 1..Len(fr_input[key]) : fr_input[key][y] = x

C38_EverySampleOnceInOrder ==
    \A key \in DOMAIN fr_input :
        LET emitted == EmittedOn(key)
            input == fr_input[key]
        IN /\ \A y \in 1..Len(input) :
                 Occurrences(input[y], emitted) + Occurrences(input[y], vad_buffers[key]) = 1
           /\ Len(emitted) + Len(vad_buffers[key]) = Len(input)
           /\ \A p, q \in 1..Len(emitted) :
                 p < q => InputIndex(emitted[p], key) < InputIndex(emitted[q], key)

\* two add_audio calls of one stream are suspended inside the VAD callback;
\* the later one has emitted a packet that begins with samples of the
\* earlier one
C38_Witness ==
    \E t1, t2 \in fr_tasks :
        /\ t1.key = t2.key
        /\ t1.timestamp < t2.timestamp
        /\ \E i \in 1..Len(fr_packets) :
              /\ fr_packets[i].speaker_id = ChunkSpeaker(t2.key)
              /\ fr_packets[i].timestamp = t2.timestamp
              /\ fr_packets[i].data[1][1] = t1.timestamp

(***************************************************************************)
(* C39: for every speaker, whenever none of its _process_asr calls is      *)
(* mid-execution, the words in that processor's committed_words are the    *)
(* same multiset as the shared context's entries attributed to that        *)
(* speaker id and as the words returned so far by its on_vad_result and    *)
(* flush calls.                                                            *)
(***************************************************************************)
\* the multiset of the elements of sequence seq
BagOf(seq) ==
    [x \in {seq[i] : i \in 1..Len(seq)} |-> Cardinality({i \in 1..Len(seq) : seq[i] = x})]

\* the words the shared context attributes to speaker_id
ContextWordsOf(speaker_id) ==
    LET own == SelectSeq(shared_context.all_committed_words,
                         LAMBDA w : w[4] = speaker_id)
    IN [i \in 1..Len(own) |-> <<own[i][1], own[i][2], own[i][3]>>]

\* the words the calls of speaker_id's processor have returned
ReturnedWordsOf(speaker_id) ==
    LET own == SinkOf(transcriptions, speaker_id)
    IN [i \in 1..Len(own) |-> <<own[i].start_time, own[i].end_time, own[i].text>>]

C39_CommittedWordsMatchContextAndReturns ==
    \A k \in DOMAIN speech_processors :
        (\A t \in asr_tasks : t.key # k) =>
            LET sp == speech_processors[k]
            IN /\ BagOf(sp.committed_words) = BagOf(ContextWordsOf(sp.speaker_id))
               /\ BagOf(sp.committed_words) = BagOf(ReturnedWordsOf(sp.speaker_id))

\* two speakers have committed words, one of them several, and no
\* recognition is in progress
C39_Witness ==
    /\ asr_tasks = {}
    /\ \E k1, k2 \in DOMAIN speech_processors :
          /\ k1 # k2
          /\ Len(speech_processors[k1].committed_words) >= 2
          /\ Len(speech_processors[k2].committed_words) >= 1

(***************************************************************************)
(* C40: a SpeechProcessor in SPEAKING that from some point on receives     *)
(* only silence packets with advancing timestamps eventually returns to    *)
(* IDLE and runs exactly one final (is_last) recognition for that          *)
(* utterance; from then on further silence packets only feed the pre-roll  *)
(* and trigger no recognizer call.                                         *)
(***************************************************************************)
\* the requests of final recognitions that await their answer
FinalTasks == {t \in asr_tasks : t.request.is_last_chunk}

\* the step ends the speech of the mixed stream's processor
SpeechEndStep ==
    /\ speech_processors[MIXED].in_speech
    /\ ~speech_processors'[MIXED].in_speech

\* a step of the silent stream: the speech ends with one request of a final
\* recognition and no other step calls the recognizer; an idle processor
\* stays idle, and a packet changes nothing of it but the pre-roll, which
\* it extends
SilentStreamStep ==
    OnlySilenceFromNow =>
        /\ SpeechEndStep =>
              /\ asr_calls' = asr_calls + 1
              /\ \E t \in FinalTasks' : asr_tasks' = asr_tasks \cup {t} /\ t \notin asr_tasks
        /\ ~SpeechEndStep => asr_calls' = asr_calls /\ FinalTasks' \subseteq FinalTasks
        /\ ~speech_processors[MIXED].in_speech =>
              /\ ~speech_processors'[MIXED].in_speech
              /\ n_packets' # n_packets =>
                    /\ asr_tasks' = asr_tasks
                    /\ speech_processors'[MIXED] =
                          [speech_processors[MIXED] EXCEPT
                              !.pre_speech_buffer = Append(@, packet_samples)]

C40_SilenceEndsTheSpeechWithOneFinalCall ==
    /\ (OnlySilenceFromNow /\ speech_processors[MIXED].in_speech)
          ~> (~speech_processors[MIXED].in_speech /\ asr_tasks = {})
    /\ [][SilentStreamStep]_vars

\* the speech has ended in the silent stream, its final recognition has been
\* answered, and two packets of silence have been queued as pre-roll since
C40_Witness ==
    /\ OnlySilenceFromNow
    /\ ~speech_processors[MIXED].in_speech
    /\ speech_processors[MIXED].last_speech_time # NoTime
    /\ speech_processors[MIXED].last_asr_time >
          speech_processors[MIXED].last_speech_time
    /\ asr_tasks = {}
    /\ Len(speech_processors[MIXED].pre_speech_buffer) >= 2
    /\ clock - speech_processors[MIXED].last_speech_time > stride
====
